---- MODULE Spec2Model ----
(***************************************************************************)
(* The grid state engine of the spreadsheet: the useSpreadsheet reducer    *)
(* (dispatch, saveToHistory, the read accessors), the cell addressing and  *)
(* validation helpers of cellUtils, and the pointer handlers of the        *)
(* Spreadsheet component that drive range selection and range moves.       *)
(*                                                                         *)
(* Strings are sequences of one-character strings, so that key building,   *)
(* key parsing and trimming are computed and not assumed.  A nullable      *)
(* value is <<>> (null / undefined) or <<v>>.                              *)
(***************************************************************************)
EXTENDS Integers, Sequences, FiniteSets, TLC

VARIABLES
    state,          \* the SpreadsheetState held by useState
    isDragging,     \* Spreadsheet component: useState(false)
    dragStart,      \* Spreadsheet component: CellPosition | null
    draggedRange,   \* Spreadsheet component: CellRange | null
    draggedCellId,  \* Spreadsheet component: string | null
    sortedColumn,   \* Spreadsheet component: { index, direction } | null
    pressedKeys,    \* Toolbar component: the keys that are held down
    pressIndex,     \* history variable: historyIndex when z went down with Control held
    threw,          \* a state updater passed to setState has thrown a TypeError
    clock,          \* the latest reading of Date.now()
    lastOp,         \* history variable: the operation or handler that ran last
    run,            \* history variable: the run of edits / undos / redos so far
    steps           \* history variable: number of steps taken (bounded runs)

vars ==
    <<state, isDragging, dragStart, draggedRange, draggedCellId, sortedColumn, pressedKeys,
      pressIndex, threw, clock, lastOp, run, steps>>

uiVars == <<isDragging, dragStart, draggedRange, draggedCellId>>

sideVars == <<sortedColumn, pressedKeys, pressIndex>>

----------------------------------------------------------------------------
(* Bounds of the model and constants of the program. *)

NumRows == 2
NumCols == 3
MaxSteps == 4
MaxRun == 3
MaxIndexSteps == 3
MaxClock == 2
MaxTailEdits == 52
MaxTailSteps == 2
MaxPointerEdits == 1
MaxKeyEdits == 3
MaxCoord == 11
MaxDecimals == 3
MaxSamples == 90
MaxMixed == 3

HistoryCap == 50

----------------------------------------------------------------------------
(* Generic helpers. *)

Null == <<>>
Some(x) == <<x>>

Min(a, b) == IF a < b THEN a ELSE b
Max(a, b) == IF a > b THEN a ELSE b

\* Array.prototype.slice(from, to) with from, to >= 0 (0-based, to exclusive, clamped).
Slice(s, from, to) == SubSeq(s, Min(from, Len(s)) + 1, Min(to, Len(s)))

\* Array.prototype.slice(-n): the last n elements.
SliceLast(s, n) == SubSeq(s, Max(Len(s) - n, 0) + 1, Len(s))

----------------------------------------------------------------------------
(* Strings as character sequences. *)

Digits == <<"0", "1", "2", "3", "4", "5", "6", "7", "8", "9">>

RECURSIVE IntToStr(_)
\* String(n) of a template literal `${n}` for an integer n.
IntToStr(n) ==
    IF n < 0 THEN <<"-">> \o IntToStr(0 - n)
    ELSE IF n < 10 THEN <<Digits[n + 1]>>
    ELSE IntToStr(n \div 10) \o <<Digits[(n % 10) + 1]>>

DigitValue(ch) == (CHOOSE i \in 1..10 : Digits[i] = ch) - 1

RECURSIVE StrToNum(_)
\* Number(s) for s a (possibly empty) run of decimal digits; Number("") is 0.
StrToNum(s) ==
    IF s = <<>> THEN 0
    ELSE 10 * StrToNum(SubSeq(s, 1, Len(s) - 1)) + DigitValue(s[Len(s)])

RECURSIVE Split(_, _)
\* String.prototype.split(sep) for a one-character separator.
Split(s, sep) ==
    IF \A i \in DOMAIN s : s[i] # sep THEN <<s>>
    ELSE LET i == CHOOSE j \in DOMAIN s : s[j] = sep /\ \A k \in 1..(j - 1) : s[k] # sep
         IN  <<SubSeq(s, 1, i - 1)>> \o Split(SubSeq(s, i + 1, Len(s)), sep)

RECURSIVE TrimLeft(_)
TrimLeft(s) == IF s # <<>> /\ Head(s) = " " THEN TrimLeft(Tail(s)) ELSE s

RECURSIVE TrimRight(_)
TrimRight(s) ==
    IF s # <<>> /\ s[Len(s)] = " " THEN TrimRight(SubSeq(s, 1, Len(s) - 1)) ELSE s

\* String.prototype.trim() (the only white space of the model is the blank).
Trim(s) == TrimRight(TrimLeft(s))

----------------------------------------------------------------------------
(* cellUtils: cell addressing and validation. *)

\* Mutant of getCellKey: the column comes first.
getCellKey_swapped(row, col) == IntToStr(col) \o <<"-">> \o IntToStr(row)

getCellKey(row, col) == IntToStr(row) \o <<"-">> \o IntToStr(col)

parseCellKey(key) ==
    LET parts == Split(key, "-")
    IN  [row |-> StrToNum(parts[1]), col |-> StrToNum(parts[2])]

RECURSIVE DigitPrefix(_)
\* The longest prefix of s made of decimal digits.
DigitPrefix(s) ==
    IF s # <<>> /\ \E i \in 1..10 : Digits[i] = Head(s)
    THEN <<Head(s)>> \o DigitPrefix(Tail(s))
    ELSE <<>>

\* parseFloat(s) for a trimmed s: an optional sign, digits, and an optional
\* point followed by digits; NaN when that prefix holds no digit.  (Exponents
\* and "Infinity" are not read: no input of the model has them.)
parseFloat(s) ==
    LET signed == s # <<>> /\ Head(s) \in {"-", "+"}
        body == IF signed THEN Tail(s) ELSE s
        int == DigitPrefix(body)
        rest == SubSeq(body, Len(int) + 1, Len(body))
        frac == IF rest # <<>> /\ Head(rest) = "." THEN DigitPrefix(Tail(rest)) ELSE <<>>
    IN  [isNaN |-> int = <<>> /\ frac = <<>>,
         negative |-> signed /\ Head(s) = "-",
         int |-> int, frac |-> frac]

RECURSIVE Grouped(_)
\* The en-US integer part: groups of three digits separated by commas.
Grouped(n) ==
    IF n < 1000 THEN IntToStr(n)
    ELSE LET low == n % 1000
         IN  Grouped(n \div 1000)
               \o <<",", Digits[(low \div 100) + 1], Digits[((low \div 10) % 10) + 1],
                     Digits[(low % 10) + 1]>>

RECURSIVE Pow10(_)
Pow10(d) == IF d = 0 THEN 1 ELSE 10 * Pow10(d - 1)

RECURSIVE FixedDigits(_, _)
\* The last d decimal digits of n, with leading zeros.
FixedDigits(n, d) ==
    IF d = 0 THEN <<>> ELSE FixedDigits(n \div 10, d - 1) \o <<Digits[(n % 10) + 1]>>

\* num.toLocaleString('en-US', { minimumFractionDigits: decimals,
\* maximumFractionDigits: decimals }), rounding on the decimal digits of num.
toLocaleString(num, decimals) ==
    LET digit(i) == IF i <= Len(num.frac) THEN DigitValue(num.frac[i]) ELSE 0
        kept == StrToNum(SubSeq(num.frac, 1, Min(decimals, Len(num.frac))))
                  * Pow10(decimals - Min(decimals, Len(num.frac)))
        scaled == StrToNum(num.int) * Pow10(decimals) + kept
                    + (IF digit(decimals + 1) >= 5 THEN 1 ELSE 0)
    IN  (IF num.negative THEN <<"-">> ELSE <<>>)
          \o Grouped(scaled \div Pow10(decimals))
          \o (IF decimals = 0 THEN <<>>
              ELSE <<".">> \o FixedDigits(scaled % Pow10(decimals), decimals))

\* /\s/ on the characters of the model.
Whitespace == {" ", "\t", "\n"}

\* /^[^\s@]+@[^\s@]+\.[^\s@]+$/.test(s)
emailRegex(s) ==
    \E i \in 1..Len(s), j \in 1..Len(s) :
        /\ s[i] = "@" /\ s[j] = "."
        /\ i > 1 /\ j > i + 1 /\ j < Len(s)
        /\ \A k \in 1..Len(s) : k # i => s[k] \notin Whitespace \cup {"@"}

UpperCase == <<"A", "B", "C", "D", "E", "F", "G", "H", "I", "J", "K", "L", "M",
               "N", "O", "P", "Q", "R", "S", "T", "U", "V", "W", "X", "Y", "Z">>

LowerCase == <<"a", "b", "c", "d", "e", "f", "g", "h", "i", "j", "k", "l", "m",
               "n", "o", "p", "q", "r", "s", "t", "u", "v", "w", "x", "y", "z">>

\* s.toLowerCase() on ASCII text.
toLowerCase(s) ==
    [k \in 1..Len(s) |->
        IF \E u \in 1..26 : UpperCase[u] = s[k]
        THEN LowerCase[CHOOSE u \in 1..26 : UpperCase[u] = s[k]]
        ELSE s[k]]

\* The format argument: absent, or an object whose decimals field is absent or
\* a number.
NoFormat == Null

\* format?.decimals || 2
DecimalsOf(format) ==
    IF format = Null \/ format[1].decimals = Null \/ format[1].decimals[1] = 0
    THEN 2
    ELSE format[1].decimals[1]

\* ['true', 'false', 'yes', 'no', '1', '0'] and, of these, ['true', 'yes', '1'].
BooleanWords ==
    {<<"t", "r", "u", "e">>, <<"f", "a", "l", "s", "e">>, <<"y", "e", "s">>,
     <<"n", "o">>, <<"1">>, <<"0">>}

TrueWords == {<<"t", "r", "u", "e">>, <<"y", "e", "s">>, <<"1">>}

\* Mutant of validateCellValue: an input that fails validation is handed back
\* as the formatted value.
validateCellValue_echoInvalid(value, columnType, format) ==
    IF value = <<>>
    THEN [isValid |-> TRUE, error |-> Null, formattedValue |-> Some(<<>>)]
    ELSE LET stringValue == Trim(value)
         IN  CASE columnType = "text" ->
                    [isValid |-> TRUE, error |-> Null, formattedValue |-> Some(stringValue)]
               [] columnType = "number" ->
                    LET num == parseFloat(stringValue)
                    IN  IF num.isNaN
                        THEN [isValid |-> FALSE, error |-> Some("Must be a valid number"),
                              formattedValue |-> Some(stringValue)]
                        ELSE [isValid |-> TRUE, error |-> Null,
                              formattedValue |-> Some(toLocaleString(num, DecimalsOf(format)))]
               [] columnType = "email" ->
                    IF ~emailRegex(stringValue)
                    THEN [isValid |-> FALSE, error |-> Some("Must be a valid email address"),
                          formattedValue |-> Some(stringValue)]
                    ELSE [isValid |-> TRUE, error |-> Null,
                          formattedValue |-> Some(toLowerCase(stringValue))]
               [] columnType = "boolean" ->
                    LET boolValue == toLowerCase(stringValue)
                    IN  IF boolValue \in BooleanWords
                        THEN [isValid |-> TRUE, error |-> Null,
                              formattedValue |->
                                  Some(IF boolValue \in TrueWords
                                       THEN <<"Y", "e", "s">> ELSE <<"N", "o">>)]
                        ELSE [isValid |-> FALSE,
                              error |-> Some("Must be Yes/No, True/False, or 1/0"),
                              formattedValue |-> Some(stringValue)]
               [] columnType \notin {"text", "number", "currency", "percentage", "date",
                                     "email", "url", "boolean"} ->
                    [isValid |-> TRUE, error |-> Null, formattedValue |-> Some(stringValue)]

\* The empty-input test and the branches for text, number, email and boolean
\* columns and the default branch; a missing field of the result is Null.  A
\* string value only: '' and an absent value are both <<>>.
validateCellValue(value, columnType, format) ==
    IF value = <<>>
    THEN [isValid |-> TRUE, error |-> Null, formattedValue |-> Some(<<>>)]
    ELSE LET stringValue == Trim(value)
         IN  CASE columnType = "text" ->
                    [isValid |-> TRUE, error |-> Null, formattedValue |-> Some(stringValue)]
               [] columnType = "number" ->
                    LET num == parseFloat(stringValue)
                    IN  IF num.isNaN
                        THEN [isValid |-> FALSE, error |-> Some("Must be a valid number"),
                              formattedValue |-> Null]
                        ELSE [isValid |-> TRUE, error |-> Null,
                              formattedValue |-> Some(toLocaleString(num, DecimalsOf(format)))]
               [] columnType = "email" ->
                    IF ~emailRegex(stringValue)
                    THEN [isValid |-> FALSE, error |-> Some("Must be a valid email address"),
                          formattedValue |-> Null]
                    ELSE [isValid |-> TRUE, error |-> Null,
                          formattedValue |-> Some(toLowerCase(stringValue))]
               [] columnType = "boolean" ->
                    LET boolValue == toLowerCase(stringValue)
                    IN  IF boolValue \in BooleanWords
                        THEN [isValid |-> TRUE, error |-> Null,
                              formattedValue |->
                                  Some(IF boolValue \in TrueWords
                                       THEN <<"Y", "e", "s">> ELSE <<"N", "o">>)]
                        ELSE [isValid |-> FALSE,
                              error |-> Some("Must be Yes/No, True/False, or 1/0"),
                              formattedValue |-> Null]
               [] columnType \notin {"text", "number", "currency", "percentage", "date",
                                     "email", "url", "boolean"} ->
                    [isValid |-> TRUE, error |-> Null, formattedValue |-> Some(stringValue)]

IsDigit(ch) == \E i \in 1..10 : Digits[i] = ch

IsLetter(ch) == \E u \in 1..26 : UpperCase[u] = ch \/ LowerCase[u] = ch

AllDigits(s) == \A k \in 1..Len(s) : IsDigit(s[k])

\* s matches /\.?\d*$/ from its first character on.
PointAndDigits(s) == AllDigits(s) \/ (s # <<>> /\ Head(s) = "." /\ AllDigits(Tail(s)))

StartsWith(s, prefix) == Len(s) >= Len(prefix) /\ SubSeq(s, 1, Len(prefix)) = prefix

\* String(v).match(/^\$[\d,]+\.?\d*$/)
currencyRegex(s) ==
    /\ s # <<>> /\ Head(s) = "$"
    /\ \E p \in 2..Len(s) :
         /\ \A k \in 2..p : IsDigit(s[k]) \/ s[k] = ","
         /\ PointAndDigits(SubSeq(s, p + 1, Len(s)))

\* /^\d+\.?\d*$/.test(str)
pureNumberRegex(s) ==
    \E p \in 1..Len(s) : AllDigits(SubSeq(s, 1, p)) /\ PointAndDigits(SubSeq(s, p + 1, Len(s)))

\* !isNaN(Number(v)) for a string: blanks are trimmed, the empty text is 0, and
\* a decimal literal is an optional sign and digits with at most one point.
\* (Exponents, hex literals and "Infinity" are not read: no sample has them.)
IsNumeric(s) ==
    LET trimmed == Trim(s)
        body == IF trimmed # <<>> /\ Head(trimmed) \in {"-", "+"} THEN Tail(trimmed) ELSE trimmed
        points == {k \in 1..Len(body) : body[k] = "."}
    IN  \/ trimmed = <<>>
        \/ /\ \A k \in 1..Len(body) : IsDigit(body[k]) \/ body[k] = "."
           /\ Cardinality(points) <= 1
           /\ Len(body) > Cardinality(points)

\* !isNaN(new Date(str).getTime()): the ISO form YYYY-MM-DD with a month 01..12
\* and a day 01..28 parses; a text without a digit does not.  The samples of
\* the model are of these two kinds, or pure numbers, or of four characters at
\* most, which the caller rules out without reading the date.
DateParses(s) ==
    /\ Len(s) = 10 /\ s[5] = "-" /\ s[8] = "-"
    /\ \A k \in {1, 2, 3, 4, 6, 7, 9, 10} : IsDigit(s[k])
    /\ StrToNum(SubSeq(s, 6, 7)) \in 1..12
    /\ StrToNum(SubSeq(s, 9, 10)) \in 1..28

\* The date test of inferColumnType.
looksLikeDate(s) == ~pureNumberRegex(s) /\ DateParses(s) /\ Len(s) > 4

\* new URL(u) does not throw, for u = scheme://rest: the rest is not empty and
\* holds no blank.
URLParses(u) ==
    LET rest == IF StartsWith(u, <<"h", "t", "t", "p", "s", ":", "/", "/">>)
                THEN SubSeq(u, 9, Len(u)) ELSE SubSeq(u, 8, Len(u))
    IN  rest # <<>> /\ \A k \in 1..Len(rest) : rest[k] \notin Whitespace

\* /\.[a-z]{2,}$/i.test(str)
tldRegex(s) ==
    \E p \in 1..Len(s) :
        s[p] = "." /\ Len(s) - p >= 2 /\ \A k \in (p + 1)..Len(s) : IsLetter(s[k])

\* The URL test of inferColumnType.
looksLikeUrl(s) ==
    IF StartsWith(s, <<"h", "t", "t", "p", ":", "/", "/">>)
         \/ StartsWith(s, <<"h", "t", "t", "p", "s", ":", "/", "/">>)
    THEN URLParses(s)
    ELSE /\ \E k \in 1..Len(s) : s[k] = "."
         /\ tldRegex(s)
         /\ URLParses(<<"h", "t", "t", "p", "s", ":", "/", "/">> \o s)

\* The categories of inferColumnType, in the order it tries them.
Categories == <<"currency", "percentage", "number", "date", "email", "url", "boolean">>

\* The filter predicate of each category.
Matches(category, s) ==
    CASE category = "currency" -> currencyRegex(s)
      [] category = "percentage" -> \E k \in 1..Len(s) : s[k] = "%"
      [] category = "number" -> IsNumeric(s)
      [] category = "date" -> looksLikeDate(s)
      [] category = "email" -> emailRegex(s)
      [] category = "url" -> looksLikeUrl(s)
      [] category = "boolean" -> toLowerCase(s) \in BooleanWords

\* nonEmptyValues.filter(...).length
MatchCount(category, samples) ==
    Cardinality({k \in 1..Len(samples) : Matches(category, samples[k])})

RECURSIVE BinadeOf(_, _)
\* The m, from m0 on, with 2^m < count <= 2^(m+1) (count >= 2).
BinadeOf(count, m) == IF 2 ^ (m + 1) < count THEN BinadeOf(count, m + 1) ELSE m

\* count > n * 0.7 in IEEE-754 double arithmetic.  0.7 is stored as
\* 0.7 - 0.4 * 2^-53, so n * 0.7 is below the real product by n * 0.4 * 2^-53
\* before rounding.  When 10 * count = 7 * n the rounded product falls below
\* count exactly when that gap is more than half the spacing 2^(m-52) of the
\* doubles below count, with 2^m < count <= 2^(m+1): when 4 * n > 10 * 2^m.
\* Otherwise the doubles compare as the reals do.
Exceeds70(count, n) ==
    IF 10 * count > 7 * n THEN TRUE
    ELSE IF 10 * count < 7 * n THEN FALSE
    ELSE count >= 1 /\ 4 * n > 10 * (2 ^ BinadeOf(count, 0))

\* The category at position i of Categories wins: all samples for number, more
\* than n * 0.7 for the others.
Wins(i, samples) ==
    IF Categories[i] = "number"
    THEN MatchCount("number", samples) = Len(samples)
    ELSE Exceeds70(MatchCount(Categories[i], samples), Len(samples))

inferColumnType(values) ==
    LET NonEmpty(v) == v # <<>>
        nonEmptyValues == SelectSeq(values, NonEmpty)
        winners == {i \in 1..Len(Categories) : Wins(i, nonEmptyValues)}
    IN  IF Len(values) = 0 THEN "text"
        ELSE IF Len(nonEmptyValues) = 0 THEN "text"
        ELSE IF winners = {} THEN "text"
        ELSE Categories[CHOOSE i \in winners : \A j \in winners : i <= j]

----------------------------------------------------------------------------
(* The override map state.cells: a JavaScript object with string keys, which *)
(* keeps its keys in insertion order.  A sequence of [key, cell] entries.    *)

HasKey(m, k) == \E i \in DOMAIN m : m[i].key = k

GetCell(m, k) == m[CHOOSE i \in DOMAIN m : m[i].key = k].cell

\* m[k] = c: an existing key keeps its place, a new key goes last.
PutCell(m, k, c) ==
    IF HasKey(m, k)
    THEN [i \in DOMAIN m |-> IF m[i].key = k THEN [key |-> k, cell |-> c] ELSE m[i]]
    ELSE Append(m, [key |-> k, cell |-> c])

\* delete m[k]
DeleteCell(m, k) ==
    LET Other(e) == e.key # k
    IN  SelectSeq(m, Other)

\* Object.keys(m)
ObjectKeys(m) == [i \in DOMAIN m |-> m[i].key]

\* Mutant of MergeStyle: the new style object replaces the old one.
MergeStyle_replace(a, b) == b

\* { ...a, ...b } for two style objects (functions from field names).
MergeStyle(a, b) ==
    [f \in (DOMAIN a) \cup (DOMAIN b) |-> IF f \in DOMAIN b THEN b[f] ELSE a[f]]

NoStyle == <<>>

\* cells[key] || { value: '' }, and the {} that { ...undefined } spreads to.
EmptyCell == [value |-> <<>>, style |-> NoStyle, formula |-> Null]

CellOrEmpty(m, k) == IF HasKey(m, k) THEN GetCell(m, k) ELSE EmptyCell

----------------------------------------------------------------------------
(* useSpreadsheet: the state, saveToHistory and the read accessors.  In the *)
(* state record, data.columns is a sequence of [key, name, type], data.items *)
(* a sequence of functions from column keys to values, cells the override    *)
(* map and history a sequence of snapshots; historyIndex is 0-based as in    *)
(* the source, so the entry it names is history[historyIndex + 1].           *)

\* { ...currentState }: the copy pushed on the history.  Its own history field
\* is the (shared) array of the state it was copied from; no code reads it, and
\* the snapshot keeps its length in place of the array.
Snapshot(s) ==
    [data |-> s.data, cells |-> s.cells, selectedCell |-> s.selectedCell,
     selectedRange |-> s.selectedRange, editingCell |-> s.editingCell,
     historyLen |-> Len(s.history), historyIndex |-> s.historyIndex]

\* Mutant of saveToHistory: the new history is not cut to its last 50 entries.
saveToHistory_uncapped(currentState) ==
    LET newHistory == Append(Slice(currentState.history, 0, currentState.historyIndex + 1),
                             Snapshot(currentState))
    IN  [currentState EXCEPT !.history = newHistory,
                             !.historyIndex = Len(newHistory) - 1]

\* Mutant of saveToHistory: the entries above historyIndex are kept.
saveToHistory_keepTail(currentState) ==
    LET newHistory == Append(currentState.history, Snapshot(currentState))
    IN  [currentState EXCEPT !.history = SliceLast(newHistory, HistoryCap),
                             !.historyIndex = Len(newHistory) - 1]

saveToHistory(currentState) ==
    LET newHistory == Append(Slice(currentState.history, 0, currentState.historyIndex + 1),
                             Snapshot(currentState))
    IN  [currentState EXCEPT !.history = SliceLast(newHistory, HistoryCap),
                             !.historyIndex = Len(newHistory) - 1]

\* { ...entry, history: newState.history, historyIndex: i }
Restore(s, entry, i) ==
    [data |-> entry.data, cells |-> entry.cells, selectedCell |-> entry.selectedCell,
     selectedRange |-> entry.selectedRange, editingCell |-> entry.editingCell,
     history |-> s.history, historyIndex |-> i]

getCellRawValue(s, row, col) ==
    LET key == getCellKey(row, col)
    IN  IF HasKey(s.cells, key) THEN GetCell(s.cells, key).value
        ELSE IF row < Len(s.data.items) /\ col < Len(s.data.columns)
             THEN LET item == s.data.items[row + 1]
                      column == s.data.columns[col + 1]
                  IN  IF column.key \in DOMAIN item THEN item[column.key] ELSE <<>>
             ELSE <<>>

\* getCellRawValue throws a TypeError: no override answers, both bounds tests
\* pass (they test the upper bound only), and items[row] or columns[col] is
\* undefined when item[column.key] is read.
ReadThrows(s, row, col) ==
    /\ ~HasKey(s.cells, getCellKey(row, col))
    /\ row < Len(s.data.items) /\ col < Len(s.data.columns)
    /\ row < 0 \/ col < 0

\* String(rawValue): every value of the model is a string already.
getCellDisplayValue(s, row, col) == getCellRawValue(s, row, col)

getCellStyle(s, row, col) == CellOrEmpty(s.cells, getCellKey(row, col)).style

----------------------------------------------------------------------------
(* dispatch, one operator per case of the switch. *)

\* validation.formattedValue || operation.value
FinalValue(s, op) ==
    LET col == op.position.col
        column == IF col >= 0 /\ col < Len(s.data.columns)
                  THEN Some(s.data.columns[col + 1]) ELSE Null
    IN  IF column # Null /\ op.value # <<>>
        THEN LET validation == validateCellValue(op.value, column[1].type, NoFormat)
             IN  IF validation.formattedValue # Null /\ validation.formattedValue[1] # <<>>
                 THEN validation.formattedValue[1]
                 ELSE op.value
        ELSE op.value

\* Mutant of SetValue: a value that fails validation is not written.
SetValue_blocking(s, op) ==
    LET key == getCellKey(op.position.row, op.position.col)
        cell == [CellOrEmpty(s.cells, key) EXCEPT !.value = FinalValue(s, op)]
        col == op.position.col
        invalid == /\ col >= 0 /\ col < Len(s.data.columns) /\ op.value # <<>>
                   /\ ~validateCellValue(op.value, s.data.columns[col + 1].type, NoFormat).isValid
    IN  IF invalid THEN s ELSE saveToHistory([s EXCEPT !.cells = PutCell(@, key, cell)])

\* Mutant of SetValue: the override is replaced by one that holds the value only.
SetValue_fresh(s, op) ==
    LET key == getCellKey(op.position.row, op.position.col)
        cell == [EmptyCell EXCEPT !.value = FinalValue(s, op)]
    IN  saveToHistory([s EXCEPT !.cells = PutCell(@, key, cell)])

SetValue(s, op) ==
    LET key == getCellKey(op.position.row, op.position.col)
        cell == [CellOrEmpty(s.cells, key) EXCEPT !.value = FinalValue(s, op)]
    IN  saveToHistory([s EXCEPT !.cells = PutCell(@, key, cell)])

SetStyle(s, op) ==
    LET key == getCellKey(op.position.row, op.position.col)
        existingCell == CellOrEmpty(s.cells, key)
        cell == [existingCell EXCEPT !.style = MergeStyle(existingCell.style, op.style)]
    IN  [s EXCEPT !.cells = PutCell(@, key, cell)]

SetFormula(s, op) ==
    LET key == getCellKey(op.position.row, op.position.col)
        existingCell == CellOrEmpty(s.cells, key)
        cell == [existingCell EXCEPT !.formula = Some(op.formula)]
    IN  saveToHistory([s EXCEPT !.cells = PutCell(@, key, cell)])

\* seq.splice(index, 0, x) on a copy: a negative index counts from the end, and
\* the start is clamped to 0..length.
InsertAt(seq, index, x) ==
    LET at == IF index < 0 THEN Max(Len(seq) + index, 0) ELSE Min(index, Len(seq))
    IN  SubSeq(seq, 1, at) \o <<x>> \o SubSeq(seq, at + 1, Len(seq))

\* `column_${Date.now()}`, for the clock reading now.
NewColumnKey(now) == <<"c", "o", "l", "u", "m", "n", "_">> \o IntToStr(now)

\* operation.name || `Column ${columns.length + 1}`
NewColumnName(s, op) ==
    IF op.name # Null /\ op.name[1] # <<>>
    THEN op.name[1]
    ELSE <<"C", "o", "l", "u", "m", "n", " ">> \o IntToStr(Len(s.data.columns) + 1)

\* { ...item, [key]: value }
WithField(item, key, value) ==
    [k \in (DOMAIN item) \cup {key} |-> IF k = key THEN value ELSE item[k]]

\* op.index is Null for an operation dispatched without an index; op.now is what
\* Date.now() returns during the call.
AddColumn(s, op) ==
    LET newColumnKey == NewColumnKey(op.now)
        newColumn == [key |-> newColumnKey, name |-> NewColumnName(s, op), type |-> "text"]
        insertIndex == IF op.index # Null THEN op.index[1] ELSE Len(s.data.columns)
        newColumns == InsertAt(s.data.columns, insertIndex, newColumn)
        newItems == [i \in DOMAIN s.data.items |->
                        WithField(s.data.items[i], newColumnKey, <<>>)]
    IN  saveToHistory([s EXCEPT !.data = [columns |-> newColumns, items |-> newItems]])

\* Mutant of AddRow: the new row is left without its fields.
AddRow_bare(s, op) ==
    LET newRow == <<>>
        insertIndex == IF op.index # Null THEN op.index[1] ELSE Len(s.data.items)
        newItems == InsertAt(s.data.items, insertIndex, newRow)
    IN  saveToHistory([s EXCEPT !.data = [@ EXCEPT !.items = newItems]])

AddRow(s, op) ==
    LET newRow == [k \in {s.data.columns[c].key : c \in DOMAIN s.data.columns} |-> <<>>]
        insertIndex == IF op.index # Null THEN op.index[1] ELSE Len(s.data.items)
        newItems == InsertAt(s.data.items, insertIndex, newRow)
    IN  saveToHistory([s EXCEPT !.data = [@ EXCEPT !.items = newItems]])

\* One iteration of the forEach over Object.keys(newCells) in DELETE_COLUMN:
\* newCells is changed in place while the key list taken at the start is walked.
ShiftColumnStep(newCells, cellKey, index) ==
    LET pos == parseCellKey(cellKey)
    IN  IF pos.col = index THEN DeleteCell(newCells, cellKey)
        ELSE IF pos.col > index
        THEN DeleteCell(PutCell(newCells, getCellKey(pos.row, pos.col - 1),
                                GetCell(newCells, cellKey)),
                        cellKey)
        ELSE newCells

RECURSIVE ShiftColumns(_, _, _)
ShiftColumns(newCells, keys, index) ==
    IF keys = <<>> THEN newCells
    ELSE ShiftColumns(ShiftColumnStep(newCells, Head(keys), index), Tail(keys), index)

\* const { [key]: _, ...rest } = item
WithoutField(item, key) == [k \in (DOMAIN item) \ {key} |-> item[k]]

\* seq.filter((_, i) => i !== index): an index that names no element removes none.
RemoveAt(seq, index) ==
    IF index >= 0 /\ index < Len(seq)
    THEN [i \in 1..(Len(seq) - 1) |-> IF i <= index THEN seq[i] ELSE seq[i + 1]]
    ELSE seq

DeleteColumn(s, op) ==
    IF op.index < Len(s.data.columns)
    THEN LET columnToDelete == s.data.columns[op.index + 1]
             newColumns == RemoveAt(s.data.columns, op.index)
             newItems == [i \in DOMAIN s.data.items |->
                             WithoutField(s.data.items[i], columnToDelete.key)]
             newCells == ShiftColumns(s.cells, ObjectKeys(s.cells), op.index)
         IN  saveToHistory([s EXCEPT !.data = [columns |-> newColumns, items |-> newItems],
                                     !.cells = newCells])
    ELSE s

ShiftRowStep(newCells, cellKey, index) ==
    LET pos == parseCellKey(cellKey)
    IN  IF pos.row = index THEN DeleteCell(newCells, cellKey)
        ELSE IF pos.row > index
        THEN DeleteCell(PutCell(newCells, getCellKey(pos.row - 1, pos.col),
                                GetCell(newCells, cellKey)),
                        cellKey)
        ELSE newCells

RECURSIVE ShiftRows(_, _, _)
ShiftRows(newCells, keys, index) ==
    IF keys = <<>> THEN newCells
    ELSE ShiftRows(ShiftRowStep(newCells, Head(keys), index), Tail(keys), index)

DeleteRow(s, op) ==
    IF op.index < Len(s.data.items)
    THEN LET newItems == RemoveAt(s.data.items, op.index)
             newCells == ShiftRows(s.cells, ObjectKeys(s.cells), op.index)
         IN  saveToHistory([s EXCEPT !.data = [@ EXCEPT !.items = newItems],
                                     !.cells = newCells])
    ELSE s

\* Mutant of SelectCell: the selected range is kept.
SelectCell_keepRange(s, op) == [s EXCEPT !.selectedCell = Some(op.position)]

SelectCell(s, op) == [s EXCEPT !.selectedCell = Some(op.position), !.selectedRange = Null]

\* Mutant of SelectRange: the selection is committed to the history.
SelectRange_committed(s, op) ==
    saveToHistory([s EXCEPT !.selectedRange = Some(op.range), !.selectedCell = Null])

\* Mutant of SelectRange: the selected cell is kept.
SelectRange_keepCell(s, op) == [s EXCEPT !.selectedRange = Some(op.range)]

SelectRange(s, op) == [s EXCEPT !.selectedRange = Some(op.range), !.selectedCell = Null]

\* Mutant of StartEditing: the selection is cleared.
StartEditing_clearsSelection(s, op) ==
    [s EXCEPT !.editingCell = Some(op.position), !.selectedCell = Null,
              !.selectedRange = Null]

StartEditing(s, op) == [s EXCEPT !.editingCell = Some(op.position)]

StopEditing(s) == [s EXCEPT !.editingCell = Null]

UpdateColumnName(s, op) ==
    IF op.columnIndex >= 0 /\ op.columnIndex < Len(s.data.columns)
    THEN saveToHistory([s EXCEPT !.data.columns[op.columnIndex + 1].name = op.newName])
    ELSE s

\* The column's format is not kept in the model: no operation of the model
\* passes one, and validateCellValue reads {} as it reads no format at all
\* (SET_VALUE hands it NoFormat).
UpdateColumnType(s, op) ==
    IF op.columnIndex >= 0 /\ op.columnIndex < Len(s.data.columns)
    THEN saveToHistory([s EXCEPT !.data.columns[op.columnIndex + 1].type = op.columnType])
    ELSE s

\* Mutant of Undo: the selection and the editing cell are not restored.
Undo_keepSelection(s) ==
    IF s.historyIndex > 0
    THEN [Restore(s, s.history[s.historyIndex], s.historyIndex - 1)
            EXCEPT !.selectedCell = s.selectedCell, !.selectedRange = s.selectedRange,
                   !.editingCell = s.editingCell]
    ELSE s

Undo(s) ==
    IF s.historyIndex > 0
    THEN Restore(s, s.history[s.historyIndex], s.historyIndex - 1)
    ELSE s

\* Mutant of Redo: the index moves on but the entry restored is the current one.
Redo_currentEntry(s) ==
    IF s.historyIndex < Len(s.history) - 1
    THEN Restore(s, s.history[s.historyIndex + 1], s.historyIndex + 1)
    ELSE s

Redo(s) ==
    IF s.historyIndex < Len(s.history) - 1
    THEN Restore(s, s.history[s.historyIndex + 2], s.historyIndex + 1)
    ELSE s

\* Mutant of SortColumn: a descending sort reverses the order of the rows.
SortColumn_reversing(s, op) ==
    IF op.direction = "desc"
    THEN [s EXCEPT !.data.items =
                      [i \in DOMAIN s.data.items |->
                          s.data.items[Len(s.data.items) + 1 - i]]]
    ELSE s

\* SORT_COLUMN is in the CellOperation type but the switch has no case for it
\* and no default: the updater returns the copy { ...prevState } it started from.
SortColumn(s, op) == s

\* The updater throws a TypeError: DELETE_COLUMN passes its guard with a negative
\* index, columns[index] is undefined, and its key is read once for every item.
Throws(s, op) ==
    /\ op.type = "DELETE_COLUMN"
    /\ op.index < Len(s.data.columns)
    /\ op.index < 0
    /\ Len(s.data.items) > 0

dispatch(s, op) ==
    CASE op.type = "SET_VALUE" -> SetValue(s, op)
      [] op.type = "SET_STYLE" -> SetStyle(s, op)
      [] op.type = "SET_FORMULA" -> SetFormula(s, op)
      [] op.type = "ADD_COLUMN" -> AddColumn(s, op)
      [] op.type = "ADD_ROW" -> AddRow(s, op)
      [] op.type = "UPDATE_COLUMN_NAME" -> UpdateColumnName(s, op)
      [] op.type = "UPDATE_COLUMN_TYPE" -> UpdateColumnType(s, op)
      [] op.type = "DELETE_COLUMN" -> DeleteColumn(s, op)
      [] op.type = "DELETE_ROW" -> DeleteRow(s, op)
      [] op.type = "SELECT_CELL" -> SelectCell(s, op)
      [] op.type = "SELECT_RANGE" -> SelectRange(s, op)
      [] op.type = "START_EDITING" -> StartEditing(s, op)
      [] op.type = "STOP_EDITING" -> StopEditing(s)
      [] op.type = "UNDO" -> Undo(s)
      [] op.type = "REDO" -> Redo(s)
      [] op.type = "SORT_COLUMN" -> SortColumn(s, op)

RECURSIVE dispatchAll(_, _)
\* Successive dispatch calls of one handler: each setState(prev => ...) updater
\* runs on the state the one before it returned.
dispatchAll(s, ops) ==
    IF ops = <<>> THEN s ELSE dispatchAll(dispatch(s, Head(ops)), Tail(ops))

----------------------------------------------------------------------------
(* Spreadsheet component: selection predicates and the pointer handlers. *)

Pos(row, col) == [row |-> row, col |-> col]

isSelected(s, row, col) == s.selectedCell = Some(Pos(row, col))

InRect(range, row, col) ==
    /\ row >= Min(range.start.row, range.end.row)
    /\ row <= Max(range.start.row, range.end.row)
    /\ col >= Min(range.start.col, range.end.col)
    /\ col <= Max(range.start.col, range.end.col)

isInRange(s, row, col) == s.selectedRange # Null /\ InRect(s.selectedRange[1], row, col)

\* The cells of a rectangle in the order of the nested for loops (row-major).
RectCells(minRow, maxRow, minCol, maxCol) ==
    LET w == maxCol - minCol + 1
        h == maxRow - minRow + 1
    IN  [i \in 1..(h * w) |-> Pos(minRow + ((i - 1) \div w), minCol + ((i - 1) % w))]

InBounds(s, row, col) ==
    row >= 0 /\ row < Len(s.data.items) /\ col >= 0 /\ col < Len(s.data.columns)

\* Mutant of CollectCellData: the bounds of the target are not checked.
CollectCellData_unchecked(s, range, rowOffset, colOffset) ==
    LET cells == RectCells(Min(range.start.row, range.end.row),
                           Max(range.start.row, range.end.row),
                           Min(range.start.col, range.end.col),
                           Max(range.start.col, range.end.col))
        Moves(p) == getCellDisplayValue(s, p.row, p.col) # <<>>
        kept == SelectSeq(cells, Moves)
    IN  [i \in DOMAIN kept |->
            [sourcePos |-> kept[i],
             targetPos |-> Pos(kept[i].row + rowOffset, kept[i].col + colOffset),
             value |-> getCellDisplayValue(s, kept[i].row, kept[i].col),
             style |-> getCellStyle(s, kept[i].row, kept[i].col)]]

\* handleMouseUp: the cellData array collected before anything is dispatched.
CollectCellData(s, range, rowOffset, colOffset) ==
    LET cells == RectCells(Min(range.start.row, range.end.row),
                           Max(range.start.row, range.end.row),
                           Min(range.start.col, range.end.col),
                           Max(range.start.col, range.end.col))
        Moves(p) == /\ InBounds(s, p.row + rowOffset, p.col + colOffset)
                    /\ getCellDisplayValue(s, p.row, p.col) # <<>>
        kept == SelectSeq(cells, Moves)
    IN  [i \in DOMAIN kept |->
            [sourcePos |-> kept[i],
             targetPos |-> Pos(kept[i].row + rowOffset, kept[i].col + colOffset),
             value |-> getCellDisplayValue(s, kept[i].row, kept[i].col),
             style |-> getCellStyle(s, kept[i].row, kept[i].col)]]

\* Mutant of MoveOps: each cell is cleared and written in one pass, cell by cell.
MoveOps_cellByCell(range, rowOffset, colOffset, cellData) ==
    LET each == [i \in 1..(3 * Len(cellData)) |->
                    LET cell == cellData[(i + 2) \div 3]
                    IN  IF i % 3 = 1
                        THEN [type |-> "SET_VALUE", position |-> cell.sourcePos, value |-> <<>>]
                        ELSE IF i % 3 = 2
                        THEN [type |-> "SET_VALUE", position |-> cell.targetPos,
                              value |-> cell.value]
                        ELSE [type |-> "SET_STYLE", position |-> cell.targetPos,
                              style |-> cell.style]]
        newStart == Pos(Min(range.start.row, range.end.row) + rowOffset,
                        Min(range.start.col, range.end.col) + colOffset)
        newEnd == Pos(Max(range.start.row, range.end.row) + rowOffset,
                      Max(range.start.col, range.end.col) + colOffset)
    IN  each \o <<[type |-> "SELECT_RANGE", range |-> [start |-> newStart, end |-> newEnd]]>>

\* Mutant of MoveOps: the selection is not moved with the cells.
MoveOps_keepSelection(range, rowOffset, colOffset, cellData) ==
    LET clear == [i \in DOMAIN cellData |->
                    [type |-> "SET_VALUE", position |-> cellData[i].sourcePos, value |-> <<>>]]
        write == [i \in 1..(2 * Len(cellData)) |->
                    LET cell == cellData[(i + 1) \div 2]
                    IN  IF i % 2 = 1
                        THEN [type |-> "SET_VALUE", position |-> cell.targetPos,
                              value |-> cell.value]
                        ELSE [type |-> "SET_STYLE", position |-> cell.targetPos,
                              style |-> cell.style]]
    IN  clear \o write

\* handleMouseUp: the dispatch calls of a range move, in the order they are made.
MoveOps(range, rowOffset, colOffset, cellData) ==
    LET clear == [i \in DOMAIN cellData |->
                    [type |-> "SET_VALUE", position |-> cellData[i].sourcePos, value |-> <<>>]]
        write == [i \in 1..(2 * Len(cellData)) |->
                    LET cell == cellData[(i + 1) \div 2]
                    IN  IF i % 2 = 1
                        THEN [type |-> "SET_VALUE", position |-> cell.targetPos,
                              value |-> cell.value]
                        ELSE [type |-> "SET_STYLE", position |-> cell.targetPos,
                              style |-> cell.style]]
        newStart == Pos(Min(range.start.row, range.end.row) + rowOffset,
                        Min(range.start.col, range.end.col) + colOffset)
        newEnd == Pos(Max(range.start.row, range.end.row) + rowOffset,
                      Max(range.start.col, range.end.col) + colOffset)
    IN  clear \o write
          \o <<[type |-> "SELECT_RANGE", range |-> [start |-> newStart, end |-> newEnd]]>>

----------------------------------------------------------------------------
(* The dataset loaded at construction, and the inputs of the operations. *)

Letters == <<"a", "b", "c", "d", "e", "f", "g", "h", "i", "j", "k", "l", "m", "n", "o", "p",
             "q", "r", "s", "t">>

ColKey(c) == <<"c">> \o IntToStr(c)

\* The loaded items: a different letter in every cell, except that some cells
\* are empty and some carry a leading blank (the data comes from outside).
BaseValue(row, col) ==
    LET idx == row * NumCols + col
    IN  IF idx % 5 = 4 THEN <<>>
        ELSE IF idx % 5 = 2 THEN <<" ", Letters[idx + 1]>>
        ELSE <<Letters[idx + 1]>>

initialData ==
    [columns |-> [c \in 1..NumCols |->
                    [key |-> ColKey(c - 1), name |-> ColKey(c - 1), type |-> "text"]],
     items |-> [r \in 1..NumRows |->
                    [k \in {ColKey(c) : c \in 0..(NumCols - 1)} |->
                        BaseValue(r - 1, CHOOSE c \in 0..(NumCols - 1) : ColKey(c) = k)]]]

\* useState(() => ({ ...initialState, data: initialData }))
initialState ==
    [data |-> initialData, cells |-> <<>>, selectedCell |-> Null, selectedRange |-> Null,
     editingCell |-> Null, history |-> <<>>, historyIndex |-> -1]

Positions(s) ==
    {Pos(r, c) : r \in 0..(Len(s.data.items) - 1), c \in 0..(Len(s.data.columns) - 1)}

EditValues == {<<>>, <<"x">>, <<"y", " ">>}

StyleInputs == {[bold |-> TRUE]}

\* All display values of the grid, by position.
DisplayGrid(s) == [p \in Positions(s) |-> getCellDisplayValue(s, p.row, p.col)]

----------------------------------------------------------------------------
(* History variables.  run follows two kinds of runs of operations:          *)
(*   p1, n, u   since load only SET_VALUEs (n of them) and then only UNDOs   *)
(*              (u of them) were dispatched;                                 *)
(*   p2, k, j   a committing operation was followed by k UNDOs and then j    *)
(*              REDOs; mark is the display just before the first UNDO.       *)
(* Counting stops (the phase becomes "off") after MaxRun operations.         *)

CommitTypes ==
    {"SET_VALUE", "SET_FORMULA", "ADD_COLUMN", "ADD_ROW", "DELETE_COLUMN", "DELETE_ROW",
     "UPDATE_COLUMN_NAME", "UPDATE_COLUMN_TYPE"}

initialRun ==
    [p1 |-> "sets", n |-> 0, u |-> 0, p2 |-> "off", k |-> 0, j |-> 0, mark |-> <<>>,
     moved |-> FALSE]

NextRun1(r, op) ==
    IF op.type = "SET_VALUE" /\ r.p1 = "sets" /\ r.n < MaxRun
    THEN [r EXCEPT !.n = @ + 1]
    ELSE IF op.type = "UNDO" /\ r.p1 \in {"sets", "undos"} /\ r.n >= 1 /\ r.u < r.n
    THEN [r EXCEPT !.p1 = "undos", !.u = @ + 1]
    ELSE [r EXCEPT !.p1 = "off", !.n = 0, !.u = 0]

NextRun2(r, s, op, s2) ==
    IF op.type \in CommitTypes /\ s2 # s
    THEN [r EXCEPT !.p2 = "commit", !.k = 0, !.j = 0, !.mark = <<>>]
    ELSE IF op.type = "UNDO" /\ r.p2 = "commit"
    THEN [r EXCEPT !.p2 = "undos", !.k = 1, !.mark = DisplayGrid(s)]
    ELSE IF op.type = "UNDO" /\ r.p2 = "undos" /\ r.k < MaxRun
    THEN [r EXCEPT !.k = @ + 1]
    ELSE IF op.type = "REDO" /\ r.p2 \in {"undos", "redos"} /\ r.j < r.k
    THEN [r EXCEPT !.p2 = "redos", !.j = @ + 1]
    ELSE [r EXCEPT !.p2 = "off", !.k = 0, !.j = 0, !.mark = <<>>]

NextRun(r, s, op, s2) == NextRun2(NextRun1(r, op), s, op, s2)

RunOff(r) ==
    [r EXCEPT !.p1 = "off", !.n = 0, !.u = 0, !.p2 = "off", !.k = 0, !.j = 0, !.mark = <<>>]

----------------------------------------------------------------------------
(* The actions: one dispatch call, or one pointer handler. *)

Init ==
    /\ state = initialState
    /\ isDragging = FALSE
    /\ dragStart = Null
    /\ draggedRange = Null
    /\ draggedCellId = Null
    /\ sortedColumn = Null
    /\ pressedKeys = {}
    /\ pressIndex = Null
    /\ threw = FALSE
    /\ clock = 0
    /\ lastOp = [type |-> "LOAD"]
    /\ run = initialRun
    /\ steps = 0

\* One call of dispatch.  An updater that throws leaves the state as it was, and
\* the error unmounts the component: nothing is dispatched after it.
Dispatch(op) ==
    LET s2 == IF Throws(state, op) THEN state ELSE dispatch(state, op)
    IN  /\ ~threw
        /\ state' = s2
        /\ threw' = Throws(state, op)
        /\ clock' = IF op.type = "ADD_COLUMN" THEN op.now ELSE clock
        /\ lastOp' = op
        /\ run' = NextRun(run, state, op, s2)
        /\ UNCHANGED <<uiVars, sideVars>>

DispatchSetValue(pos, value) ==
    Dispatch([type |-> "SET_VALUE", position |-> pos, value |-> value])

DispatchSetStyle(pos, style) ==
    Dispatch([type |-> "SET_STYLE", position |-> pos, style |-> style])

DispatchDeleteColumn(index) == Dispatch([type |-> "DELETE_COLUMN", index |-> index])

DispatchDeleteRow(index) == Dispatch([type |-> "DELETE_ROW", index |-> index])

DispatchSetFormula(pos, formula) ==
    Dispatch([type |-> "SET_FORMULA", position |-> pos, formula |-> formula])

\* index and name are Null when the operation carries none.
DispatchAddColumn(index, name, now) ==
    Dispatch([type |-> "ADD_COLUMN", index |-> index, name |-> name, now |-> now])

DispatchAddRow(index) == Dispatch([type |-> "ADD_ROW", index |-> index])

DispatchUpdateColumnName(columnIndex, newName) ==
    Dispatch([type |-> "UPDATE_COLUMN_NAME", columnIndex |-> columnIndex,
              newName |-> newName])

DispatchUpdateColumnType(columnIndex, columnType) ==
    Dispatch([type |-> "UPDATE_COLUMN_TYPE", columnIndex |-> columnIndex,
              columnType |-> columnType])

DispatchSelectCell(pos) == Dispatch([type |-> "SELECT_CELL", position |-> pos])

DispatchSelectRange(range) == Dispatch([type |-> "SELECT_RANGE", range |-> range])

DispatchStartEditing(pos) == Dispatch([type |-> "START_EDITING", position |-> pos])

DispatchStopEditing == Dispatch([type |-> "STOP_EDITING"])

DispatchSortColumn(columnIndex, direction) ==
    Dispatch([type |-> "SORT_COLUMN", columnIndex |-> columnIndex, direction |-> direction])

DispatchUndo == Dispatch([type |-> "UNDO"])

DispatchRedo == Dispatch([type |-> "REDO"])

\* Mutant of handleCellClick: the click selects the cell also while a cell is
\* being edited.
handleCellClick_unguarded(row, col) ==
    /\ ~threw /\ UNCHANGED <<threw, clock, sideVars>>
    /\ lastOp' = [type |-> "CLICK", position |-> Pos(row, col)]
    /\ run' = RunOff(run)
    /\ state' = dispatch(state, [type |-> "SELECT_CELL", position |-> Pos(row, col)])
    /\ UNCHANGED uiVars

handleCellClick(row, col) ==
    /\ ~threw /\ UNCHANGED <<threw, clock, sideVars>>
    /\ lastOp' = [type |-> "CLICK", position |-> Pos(row, col)]
    /\ run' = RunOff(run)
    /\ IF state.editingCell = Null
       THEN state' = dispatch(state, [type |-> "SELECT_CELL", position |-> Pos(row, col)])
       ELSE UNCHANGED state
    /\ UNCHANGED uiVars

\* A click on the header of column columnIndex, while no column name is being
\* edited (editingColumnIndex is null).
handleColumnSort(columnIndex) ==
    LET currentDirection == IF sortedColumn # Null /\ sortedColumn[1].index = columnIndex
                            THEN Some(sortedColumn[1].direction) ELSE Null
        newDirection == IF currentDirection = Some("asc") THEN "desc" ELSE "asc"
        op == [type |-> "SORT_COLUMN", columnIndex |-> columnIndex,
               direction |-> newDirection]
    IN  /\ ~threw /\ UNCHANGED <<threw, clock, uiVars, pressedKeys, pressIndex>>
        /\ IF state.editingCell # Null
           THEN /\ UNCHANGED <<state, sortedColumn>>
                /\ lastOp' = [type |-> "HEADER_CLICK", columnIndex |-> columnIndex]
                /\ run' = RunOff(run)
           ELSE /\ sortedColumn' = Some([index |-> columnIndex, direction |-> newDirection])
                /\ state' = dispatch(state, op)
                /\ lastOp' = op
                /\ run' = NextRun(run, state, op, dispatch(state, op))

\* The Toolbar's pressed-keys effect undoes while both keys are recorded as held.
HeldUndo(keys) == "Control" \in keys /\ "z" \in keys

\* A key goes down (no auto-repeat: the key was up). Both document listeners run:
\* the Toolbar records the key, and the grid's handler, when a cell is selected
\* and the key is z with Control held, dispatches UNDO. pressIndex remembers
\* historyIndex as it was when z went down with Control held.
KeyDown(key) ==
    LET ctrlKey == "Control" \in pressedKeys \/ key = "Control"
        undoes == state.selectedCell # Null /\ ctrlKey /\ key = "z"
        op == [type |-> "UNDO"]
    IN  /\ ~threw /\ UNCHANGED <<threw, clock, uiVars, sortedColumn>>
        /\ key \notin pressedKeys
        /\ pressedKeys' = pressedKeys \cup {key}
        /\ pressIndex' = IF key = "z" /\ ctrlKey THEN Some(state.historyIndex) ELSE pressIndex
        /\ state' = IF undoes THEN dispatch(state, op) ELSE state
        /\ lastOp' = [type |-> "KEY_DOWN", key |-> key]
        /\ run' = RunOff(run)

\* A key comes up: the Toolbar forgets it.
KeyUp(key) ==
    /\ ~threw /\ UNCHANGED <<threw, clock, uiVars, sortedColumn, state>>
    /\ key \in pressedKeys
    /\ pressedKeys' = pressedKeys \ {key}
    /\ pressIndex' = IF key = "z" THEN Null ELSE pressIndex
    /\ lastOp' = [type |-> "KEY_UP", key |-> key]
    /\ run' = RunOff(run)

\* The Toolbar's effect on [pressedKeys, onUndo] runs after a render in which
\* either changed. onUndo is an inline arrow of the Spreadsheet, new on each of
\* its renders, and every dispatch renders the Spreadsheet: while Control and z
\* are held the effect is due after the key event and again after each UNDO it
\* dispatches.
ToolbarEffect ==
    /\ ~threw /\ UNCHANGED <<threw, clock, uiVars, sideVars>>
    /\ HeldUndo(pressedKeys)
    /\ state' = dispatch(state, [type |-> "UNDO"])
    /\ lastOp' = [type |-> "UNDO"]
    /\ run' = RunOff(run)

handleCellDoubleClick(row, col) == DispatchStartEditing(Pos(row, col))

handleCellMouseDown(row, col) ==
    /\ ~threw /\ UNCHANGED <<threw, clock, sideVars>>
    /\ lastOp' = [type |-> "MOUSE_DOWN", position |-> Pos(row, col)]
    /\ run' = RunOff(run)
    /\ IF state.editingCell # Null
       THEN UNCHANGED <<state, uiVars>>
       ELSE IF /\ isSelected(state, row, col) \/ isInRange(state, row, col)
               /\ getCellDisplayValue(state, row, col) # <<>> \/ state.selectedRange # Null
            THEN /\ isDragging' = TRUE
                 /\ dragStart' = Some(Pos(row, col))
                 /\ draggedCellId' = Some(getCellKey(row, col))
                 /\ draggedRange' = state.selectedRange
                 /\ UNCHANGED state
            ELSE /\ state' = dispatch(state, [type |-> "SELECT_CELL", position |-> Pos(row, col)])
                 /\ isDragging' = TRUE
                 /\ dragStart' = Some(Pos(row, col))
                 /\ draggedRange' = Null
                 /\ UNCHANGED draggedCellId

\* The pointer moves over the cell at (row, col) while a drag is under way.
handleMouseMove(row, col) ==
    /\ isDragging /\ dragStart # Null
    /\ ~threw /\ UNCHANGED <<threw, clock, sideVars>>
    /\ lastOp' = [type |-> "MOUSE_MOVE", position |-> Pos(row, col)]
    /\ run' = RunOff(run)
    /\ IF draggedRange # Null
       THEN UNCHANGED state
       ELSE state' = dispatch(state, [type |-> "SELECT_RANGE",
                                      range |-> [start |-> dragStart[1], end |-> Pos(row, col)]])
    /\ UNCHANGED uiVars

\* The pointer is released over the cell drop = <<position>>, or over no cell (Null).
handleMouseUp(drop) ==
    /\ isDragging /\ dragStart # Null
    /\ ~threw /\ UNCHANGED <<threw, clock, sideVars>>
    /\ IF drop # Null /\ draggedRange # Null
       THEN LET range == draggedRange[1]
                source == parseCellKey(draggedCellId[1])
                rowOffset == drop[1].row - source.row
                colOffset == drop[1].col - source.col
                cellData == CollectCellData(state, range, rowOffset, colOffset)
            IN  /\ state' = dispatchAll(state, MoveOps(range, rowOffset, colOffset, cellData))
                /\ lastOp' = [type |-> "MOVE", range |-> range, drop |-> drop[1],
                              rowOffset |-> rowOffset, colOffset |-> colOffset,
                              cellData |-> cellData]
                /\ run' = [RunOff(run) EXCEPT !.moved = TRUE]
       ELSE /\ UNCHANGED state
            /\ lastOp' = [type |-> "MOUSE_UP"]
            /\ run' = RunOff(run)
    /\ isDragging' = FALSE
    /\ dragStart' = Null
    /\ draggedRange' = Null
    /\ UNCHANGED draggedCellId

----------------------------------------------------------------------------
(* Specifications.  Each one drives the same engine with one family of      *)
(* operations, so that its state space stays explorable.                     *)

\* One budgeted step.
Step == steps < MaxSteps /\ steps' = steps + 1

\* Editing: values, styles, undo and redo, for at most MaxSteps operations.
NextEdit ==
    \/ \E pos \in Positions(state), value \in EditValues :
          Step /\ DispatchSetValue(pos, value)
    \/ \E pos \in Positions(state), style \in StyleInputs :
          Step /\ DispatchSetStyle(pos, style)
    \/ Step /\ DispatchUndo
    \/ Step /\ DispatchRedo

SpecEdit == Init /\ [][NextEdit]_vars

\* Structure: overrides are written, then rows and columns are deleted.
StructValues == {<<"x">>, <<"y">>}

NextStruct ==
    \/ \E pos \in Positions(state), value \in StructValues :
          Step /\ DispatchSetValue(pos, value)
    \/ \E index \in 0..Len(state.data.columns) : Step /\ DispatchDeleteColumn(index)
    \/ \E index \in 0..Len(state.data.items) : Step /\ DispatchDeleteRow(index)

SpecStruct == Init /\ [][NextStruct]_vars

\* Range moves: pointer gestures until one move has been applied, and undo and
\* redo throughout.
Gesture == ~run.moved /\ UNCHANGED steps

NextMove ==
    \/ \E pos \in Positions(state) : Gesture /\ handleCellMouseDown(pos.row, pos.col)
    \/ \E pos \in Positions(state) : Gesture /\ handleMouseMove(pos.row, pos.col)
    \/ \E pos \in Positions(state) : Gesture /\ handleMouseUp(Some(pos))
    \/ Gesture /\ handleMouseUp(Null)
    \/ DispatchUndo /\ UNCHANGED steps
    \/ DispatchRedo /\ UNCHANGED steps

SpecMove == Init /\ [][NextMove]_vars

\* The history at its cap: one cell is edited over and over, each edit writing
\* the value that follows the cell's value in a cycle of three, with undo and redo.
\* The edits come first and the undos and redos after them (SpecEdit mixes them).
NextValue(v) ==
    IF v = <<"x">> THEN <<"y">> ELSE IF v = <<"y">> THEN <<"z">> ELSE <<"x">>

OnlyEdited == lastOp.type \in {"LOAD", "SET_VALUE"}

NextCap ==
    \/ /\ OnlyEdited
       /\ DispatchSetValue(Pos(0, 0), NextValue(getCellRawValue(state, 0, 0)))
       /\ UNCHANGED steps
    \/ DispatchUndo /\ UNCHANGED steps
    \/ DispatchRedo /\ UNCHANGED steps

SpecCap == Init /\ [][NextCap]_vars

\* Indices of every kind: each operation is dispatched with indices and
\* positions below, inside and beyond the dataset, for at most MaxIndexSteps
\* operations.
IndexRows(s) == {-1, 0, Len(s.data.items)}

IndexCols(s) == {-1, 0, Len(s.data.columns)}

IndexPositions(s) == {Pos(r, c) : r \in IndexRows(s), c \in IndexCols(s)}

\* The readings Date.now() can give next: the clock does not run backwards.
Readings == clock..Min(clock + 1, MaxClock)

StepIndex == steps < MaxIndexSteps /\ steps' = steps + 1

NextIndex ==
    \/ \E pos \in IndexPositions(state) : StepIndex /\ DispatchSetValue(pos, <<"x">>)
    \/ \E pos \in IndexPositions(state) : StepIndex /\ DispatchSetStyle(pos, [bold |-> TRUE])
    \/ \E pos \in IndexPositions(state) : StepIndex /\ DispatchSetFormula(pos, <<"=", "1">>)
    \/ \E index \in IndexCols(state), now \in Readings :
          StepIndex /\ DispatchAddColumn(Some(index), Null, now)
    \/ \E index \in IndexRows(state) : StepIndex /\ DispatchAddRow(Some(index))
    \/ \E index \in IndexCols(state) : StepIndex /\ DispatchDeleteColumn(index)
    \/ \E index \in IndexRows(state) : StepIndex /\ DispatchDeleteRow(index)
    \/ \E index \in IndexCols(state) : StepIndex /\ DispatchUpdateColumnName(index, <<"n">>)
    \/ \E index \in IndexCols(state) : StepIndex /\ DispatchUpdateColumnType(index, "text")
    \/ StepIndex /\ DispatchSelectCell(Pos(-1, -1))
    \/ StepIndex /\ DispatchSelectRange([start |-> Pos(0, 0), end |-> Pos(-1, -1)])
    \/ StepIndex /\ DispatchStartEditing(Pos(-1, -1))
    \/ StepIndex /\ DispatchStopEditing
    \/ StepIndex /\ DispatchUndo
    \/ StepIndex /\ DispatchRedo

SpecIndex == Init /\ [][NextIndex]_vars

\* Growth: columns and rows are added, with and without an index and a name, at
\* clock readings that may repeat; columns are deleted; the last commit is undone.
Indexes == {Null, Some(0)}

ColumnNames == {Null, Some(<<"n">>)}

NextGrow ==
    \/ \E index \in Indexes, name \in ColumnNames, now \in Readings :
          Step /\ DispatchAddColumn(index, name, now)
    \/ \E index \in Indexes : Step /\ DispatchAddRow(index)
    \/ \E index \in 0..(Len(state.data.columns) - 1) : Step /\ DispatchDeleteColumn(index)
    \/ Step /\ DispatchUndo

SpecGrow == Init /\ [][NextGrow]_vars

\* Selection and formatting: cells and ranges are selected, styles of one or
\* two fields are set on two cells, and values are written in between.
FormatPositions == {Pos(0, 0), Pos(1, 1)}

Ranges ==
    {[start |-> Pos(0, 0), end |-> Pos(1, 1)],
     [start |-> Pos(1, 2), end |-> Pos(0, 0)],
     [start |-> Pos(0, 1), end |-> Pos(0, 1)]}

StyleFields ==
    {[bold |-> TRUE], [bold |-> FALSE], [italic |-> TRUE],
     [bold |-> TRUE, backgroundColor |-> "#ff0000"]}

NextFormat ==
    \/ \E pos \in FormatPositions : Step /\ DispatchSelectCell(pos)
    \/ \E range \in Ranges : Step /\ DispatchSelectRange(range)
    \/ \E pos \in FormatPositions, style \in StyleFields : Step /\ DispatchSetStyle(pos, style)
    \/ \E pos \in FormatPositions : Step /\ DispatchSetValue(pos, <<"x">>)

SpecFormat == Init /\ [][NextFormat]_vars

\* Typed columns: the type of a column is changed, and values that do and do not
\* satisfy it are written to its cells and to the cells of a text column.
TypedPositions == {Pos(1, 0), Pos(0, 1)}

TypedValues ==
    {<<"a", "b">>, <<" ", "n">>, <<"7">>, <<"1", "2", "3", "4", ".", "5", "6", "7">>, <<>>}

ColumnTypes == {"number", "text"}

NextTyped ==
    \/ \E columnType \in ColumnTypes : Step /\ DispatchUpdateColumnType(0, columnType)
    \/ \E pos \in TypedPositions, value \in TypedValues : Step /\ DispatchSetValue(pos, value)
    \/ Step /\ DispatchUndo

SpecTyped == Init /\ [][NextTyped]_vars

\* The redo tail: cell (0, 0) is given a value never used before, first in one
\* unbroken run of edits that can fill the history, and then, for MaxTailSteps
\* more edits, after up to MaxRun undos and some redos.
EntryId(cells) ==
    IF HasKey(cells, getCellKey(0, 0)) THEN StrToNum(GetCell(cells, getCellKey(0, 0)).value)
    ELSE 0

MaxId(s) ==
    LET ids == {EntryId(s.history[i].cells) : i \in DOMAIN s.history} \cup {EntryId(s.cells)}
    IN  CHOOSE n \in ids : \A m \in ids : m <= n

FreshValue(s) == IntToStr(MaxId(s) + 1)

StepTail == steps < MaxTailSteps /\ steps' = steps + 1

NextTail ==
    \/ /\ steps = 0 /\ OnlyEdited /\ MaxId(state) < MaxTailEdits
       /\ DispatchSetValue(Pos(0, 0), FreshValue(state))
       /\ UNCHANGED steps
    \/ /\ steps > 0 \/ ~OnlyEdited
       /\ StepTail
       /\ DispatchSetValue(Pos(0, 0), FreshValue(state))
    \/ /\ run.p2 \in {"commit", "undos"} /\ run.k < MaxRun
       /\ DispatchUndo /\ UNCHANGED steps
    \/ /\ run.p2 \in {"undos", "redos"} /\ run.j < run.k
       /\ DispatchRedo /\ UNCHANGED steps

SpecTail == Init /\ [][NextTail]_vars

\* Pointer and editing: presses, moves and releases of the pointer over two
\* cells (the release falls outside the grid), selections of these cells and of
\* one range and editing started and stopped by dispatch, and at most
\* MaxPointerEdits edits of the first cell.
StepPointer == steps < MaxPointerEdits /\ steps' = steps + 1

NextPointer ==
    \/ \E pos \in FormatPositions : handleCellMouseDown(pos.row, pos.col) /\ UNCHANGED steps
    \/ \E pos \in FormatPositions : handleMouseMove(pos.row, pos.col) /\ UNCHANGED steps
    \/ handleMouseUp(Null) /\ UNCHANGED steps
    \/ \E pos \in FormatPositions : DispatchSelectCell(pos) /\ UNCHANGED steps
    \/ DispatchSelectRange([start |-> Pos(1, 2), end |-> Pos(0, 0)]) /\ UNCHANGED steps
    \/ \E pos \in FormatPositions : DispatchStartEditing(pos) /\ UNCHANGED steps
    \/ DispatchStopEditing /\ UNCHANGED steps
    \/ StepPointer /\ DispatchSetValue(Pos(0, 0), <<"x">>)

SpecPointer == Init /\ [][NextPointer]_vars

\* Presses and clicks: the pointer is pressed, moved, released (outside the grid)
\* and clicked over three cells, and editing is started by a double click and
\* stopped.
PressPositions == {Pos(0, 0), Pos(0, 1), Pos(1, 1)}

NextPress ==
    \/ \E pos \in PressPositions : handleCellMouseDown(pos.row, pos.col) /\ UNCHANGED steps
    \/ \E pos \in PressPositions : handleMouseMove(pos.row, pos.col) /\ UNCHANGED steps
    \/ handleMouseUp(Null) /\ UNCHANGED steps
    \/ \E pos \in PressPositions : handleCellClick(pos.row, pos.col) /\ UNCHANGED steps
    \/ \E pos \in PressPositions : handleCellDoubleClick(pos.row, pos.col) /\ UNCHANGED steps
    \/ DispatchStopEditing /\ UNCHANGED steps

SpecPress == Init /\ [][NextPress]_vars

\* Sorting: column headers are clicked and SORT_COLUMN is dispatched with indices
\* inside and outside the dataset, between edits of the first column, selections,
\* the start and the end of editing, and undos.
SortIndexes == -1..NumCols

Directions == {"asc", "desc"}

NextSort ==
    \/ \E row \in 0..(NumRows - 1), value \in StructValues :
          Step /\ DispatchSetValue(Pos(row, 0), value)
    \/ \E columnIndex \in 0..(NumCols - 1) : Step /\ handleColumnSort(columnIndex)
    \/ \E columnIndex \in SortIndexes, direction \in Directions :
          Step /\ DispatchSortColumn(columnIndex, direction)
    \/ Step /\ DispatchSelectCell(Pos(0, 0))
    \/ Step /\ DispatchStartEditing(Pos(0, 0))
    \/ Step /\ DispatchStopEditing
    \/ Step /\ DispatchUndo

SpecSort == Init /\ [][NextSort]_vars

\* Keys: up to MaxKeyEdits edits of the first cell and its selection while no key
\* is held, then Control and z go down and come up in any order, and the
\* Toolbar's effect runs whenever it is due.
Keys == {"Control", "z"}

StepKeys == steps < MaxKeyEdits /\ steps' = steps + 1

NextKeys ==
    \/ \E value \in StructValues :
          pressedKeys = {} /\ StepKeys /\ DispatchSetValue(Pos(0, 0), value)
    \/ pressedKeys = {} /\ DispatchSelectCell(Pos(0, 0)) /\ UNCHANGED steps
    \/ \E key \in Keys : KeyDown(key) /\ UNCHANGED steps
    \/ \E key \in Keys : KeyUp(key) /\ UNCHANGED steps
    \/ ToolbarEffect /\ UNCHANGED steps

SpecKeys == Init /\ [][NextKeys]_vars

\* One cell and its neighbour: styles, formulas and values are set on two cells
\* that show a value of the loaded dataset.
CellPositions == {Pos(0, 0), Pos(0, 1)}

CellStyles == {[bold |-> TRUE], [italic |-> TRUE]}

CellValues == {<<"x">>, <<>>}

NextCell ==
    \/ \E pos \in CellPositions, style \in CellStyles : Step /\ DispatchSetStyle(pos, style)
    \/ \E pos \in CellPositions : Step /\ DispatchSetFormula(pos, <<"=", "1">>)
    \/ \E pos \in CellPositions, value \in CellValues : Step /\ DispatchSetValue(pos, value)

SpecCell == Init /\ [][NextCell]_vars

\* The pure functions of cellUtils: one call is drawn at the start and applied.
\* lastOp holds the call, and after it the call with what it returned.
KeyCalls == {[type |-> "CALL", fn |-> "getCellKey", row |-> r, col |-> c] :
                r \in 0..MaxCoord, c \in 0..MaxCoord}

\* The values handed to validateCellValue: '', 'ab', ' ', '7', ' 12 ',
\* '1234.567', '12x', 'A@b.Co', 'a@b', 'a b@c.d', 'YES', 'maybe'.
ValidatedValues ==
    {<<>>, <<"a", "b">>, <<" ">>, <<"7">>, <<" ", "1", "2", " ">>,
     <<"1", "2", "3", "4", ".", "5", "6", "7">>, <<"1", "2", "x">>,
     <<"A", "@", "b", ".", "C", "o">>, <<"a", "@", "b">>,
     <<"a", " ", "b", "@", "c", ".", "d">>, <<"Y", "E", "S">>,
     <<"m", "a", "y", "b", "e">>}

\* The column types of SpreadsheetColumn, and one that is none of them.
KnownTypes == {"text", "number", "currency", "percentage", "date", "email", "url", "boolean"}

ValidatedTypes == {"text", "number", "email", "boolean", "other"}

Formats ==
    {NoFormat, Some([decimals |-> Null])}
      \cup {Some([decimals |-> Some(d)]) : d \in 0..MaxDecimals}

\* Every type sees the empty input; the types whose branch is modelled see
\* every input.
ValidateCalls ==
    {[type |-> "CALL", fn |-> "validateCellValue", value |-> c[1],
      columnType |-> c[2], format |-> c[3]] :
        c \in (ValidatedValues \X ValidatedTypes \X Formats)
                 \cup ({<<>>} \X KnownTypes \X Formats)}

\* The samples handed to inferColumnType: '$5', '50%', '7', '1', '2024-01-15',
\* 'a@b.c', 'a.io', 'yes', 'hello' and ''.
Samples ==
    {<<"$", "5">>, <<"5", "0", "%">>, <<"7">>, <<"1">>,
     <<"2", "0", "2", "4", "-", "0", "1", "-", "1", "5">>,
     <<"a", "@", "b", ".", "c">>, <<"a", ".", "i", "o">>, <<"y", "e", "s">>,
     <<"h", "e", "l", "l", "o">>, <<>>}

\* Every list of at most MaxMixed samples.
MixedLists == UNION {[1..n -> Samples] : n \in 0..MaxMixed}

Repeat(v, k) == [i \in 1..k |-> v]

\* A column of n filled cells, tens up to MaxSamples, of which the first k hold
\* the same sample and the others 'hello', with k one below, at and one above
\* seven tenths of n; followed by no or five empty cells.
BulkLists ==
    {Repeat(v, (7 * n) \div 10 + d)
       \o Repeat(<<"h", "e", "l", "l", "o">>, n - ((7 * n) \div 10 + d))
       \o Repeat(<<>>, e) :
        v \in Samples \ {<<>>, <<"h", "e", "l", "l", "o">>},
        n \in {m \in 1..MaxSamples : m % 10 = 0},
        d \in {-1, 0, 1},
        e \in {0, 5}}

InferCalls ==
    {[type |-> "CALL", fn |-> "inferColumnType", values |-> l] : l \in MixedLists \cup BulkLists}

UtilCalls == KeyCalls \cup ValidateCalls \cup InferCalls

InitUtils ==
    /\ state = initialState
    /\ isDragging = FALSE
    /\ dragStart = Null
    /\ draggedRange = Null
    /\ draggedCellId = Null
    /\ sortedColumn = Null
    /\ pressedKeys = {}
    /\ pressIndex = Null
    /\ threw = FALSE
    /\ clock = 0
    /\ lastOp \in UtilCalls
    /\ run = initialRun
    /\ steps = 0

\* parseCellKey(getCellKey(row, col))
CallCellKey ==
    /\ lastOp.type = "CALL" /\ lastOp.fn = "getCellKey"
    /\ lastOp' = [type |-> "RETURN", fn |-> "getCellKey", row |-> lastOp.row,
                  col |-> lastOp.col, key |-> getCellKey(lastOp.row, lastOp.col),
                  parsed |-> parseCellKey(getCellKey(lastOp.row, lastOp.col))]
    /\ UNCHANGED <<state, uiVars, sideVars, threw, clock, run, steps>>

CallValidate ==
    /\ lastOp.type = "CALL" /\ lastOp.fn = "validateCellValue"
    /\ lastOp' = [type |-> "RETURN", fn |-> "validateCellValue", value |-> lastOp.value,
                  columnType |-> lastOp.columnType, format |-> lastOp.format,
                  result |-> validateCellValue(lastOp.value, lastOp.columnType,
                                               lastOp.format)]
    /\ UNCHANGED <<state, uiVars, sideVars, threw, clock, run, steps>>

CallInfer ==
    /\ lastOp.type = "CALL" /\ lastOp.fn = "inferColumnType"
    /\ lastOp' = [type |-> "RETURN", fn |-> "inferColumnType", values |-> lastOp.values,
                  result |-> inferColumnType(lastOp.values)]
    /\ UNCHANGED <<state, uiVars, sideVars, threw, clock, run, steps>>

NextUtils ==
    \/ CallCellKey
    \/ CallValidate
    \/ CallInfer

SpecUtils == InitUtils /\ [][NextUtils]_vars

----------------------------------------------------------------------------
(* Claims about undo, redo and the history. *)

\* C1 (as claimed): from a fresh load, after N SET_VALUEs on in-range cells
\* (N >= 1), N UNDOs bring every cell's display value back to the loaded one.
C1_UndoRestoresLoad ==
    (run.p1 = "undos" /\ run.n >= 1 /\ run.u = run.n)
        => DisplayGrid(state) = DisplayGrid(initialState)

\* C2: after a committing operation followed by k UNDOs, k REDOs bring every
\* cell's display value back to what it was just before the first UNDO.
C2_RedoRestoresDisplay ==
    (run.p2 = "redos" /\ run.j = run.k) => DisplayGrid(state) = run.mark

\* C2 witness: two UNDOs that changed the display, then two REDOs, with the
\* history at its cap.
C2_Witness ==
    /\ run.p2 = "redos" /\ run.k = 2 /\ run.j = 2
    /\ Len(state.history) = HistoryCap
    /\ DisplayGrid(state) # DisplayGrid(Restore(state, state.history[state.historyIndex], 0))

\* C3 (as claimed): SET_STYLE adds no history entry, and the style set by a
\* SET_STYLE that follows the latest commit is still what getCellStyle returns
\* after the next UNDO.
C3_StyleSurvivesUndo ==
    [][/\ lastOp'.type = "SET_STYLE"
          => /\ state'.history = state.history
             /\ state'.historyIndex = state.historyIndex
       /\ (lastOp.type = "SET_STYLE" /\ lastOp'.type = "UNDO")
          => getCellStyle(state', lastOp.position.row, lastOp.position.col)
               = getCellStyle(state, lastOp.position.row, lastOp.position.col)]_vars

\* C4: the history never holds more than 50 entries; a commit on a full history
\* drops the oldest entry and appends the new one; and with a full history an
\* UNDO leads to a retained entry, never back to the loaded state.
C4_HistoryCapped ==
    [][/\ Len(state'.history) <= HistoryCap
       /\ (lastOp'.type = "SET_VALUE" /\ Len(state.history) = HistoryCap
             /\ state.historyIndex >= HistoryCap - 1)
          => /\ SubSeq(state'.history, 1, HistoryCap - 1) = Tail(state.history)
             /\ state'.history[HistoryCap].cells = state'.cells
       /\ (lastOp'.type = "UNDO" /\ Len(state.history) = HistoryCap)
          => /\ \E i \in 1..HistoryCap : state'.cells = state.history[i].cells
             /\ state'.cells # initialState.cells]_vars

\* C4 witness: a commit was made on a full history, and the UNDOs that followed
\* have reached the oldest retained entry.
C4_Witness ==
    /\ Len(state.history) = HistoryCap
    /\ state.history[HistoryCap].historyLen = HistoryCap
    /\ lastOp.type = "UNDO"
    /\ state.historyIndex = 0

\* C5 (as claimed): -1 <= historyIndex < history.length always, and right after
\* a committing operation historyIndex is the index of the last entry.
C5_IndexInRange ==
    /\ -1 <= state.historyIndex
    /\ state.historyIndex < Len(state.history)
    /\ lastOp.type \in CommitTypes => state.historyIndex = Len(state.history) - 1

----------------------------------------------------------------------------
(* Claims about deleting columns and rows. *)

OverridePositions(s) == {parseCellKey(s.cells[i].key) : i \in DOMAIN s.cells}

OverrideAt(s, row, col) == GetCell(s.cells, getCellKey(row, col))

HasOverride(s, row, col) == HasKey(s.cells, getCellKey(row, col))

\* C6 (as claimed): after DELETE_COLUMN(d) with 0 <= d < columns.length, every
\* override that was at (r, c) with c > d is unchanged at (r, c - 1), every
\* override with c < d is unchanged in place, and nothing else is an override
\* (so none from column d survives), whatever the order the overrides were made in.
C6_DeleteColumnShifts ==
    [][(lastOp'.type = "DELETE_COLUMN" /\ lastOp'.index < Len(state.data.columns))
         => LET d == lastOp'.index
                NewPos(p) == IF p.col > d THEN Pos(p.row, p.col - 1) ELSE p
                kept == {p \in OverridePositions(state) : p.col # d}
            IN  /\ \A p \in kept :
                      /\ HasOverride(state', NewPos(p).row, NewPos(p).col)
                      /\ OverrideAt(state', NewPos(p).row, NewPos(p).col)
                           = OverrideAt(state, p.row, p.col)
                /\ OverridePositions(state') = {NewPos(p) : p \in kept}]_vars

\* C7 (as claimed): after DELETE_ROW(d) with 0 <= d < items.length, exactly item
\* d is gone, every override that was at (r, c) with r > d is unchanged at
\* (r - 1, c), every override with r < d is unchanged in place, and nothing else
\* is an override (so none from row d survives), whatever the order of creation.
C7_DeleteRowShifts ==
    [][(lastOp'.type = "DELETE_ROW" /\ lastOp'.index < Len(state.data.items))
         => LET d == lastOp'.index
                NewPos(p) == IF p.row > d THEN Pos(p.row - 1, p.col) ELSE p
                kept == {p \in OverridePositions(state) : p.row # d}
            IN  /\ state'.data.items = RemoveAt(state.data.items, d)
                /\ state'.data.columns = state.data.columns
                /\ \A p \in kept :
                      /\ HasOverride(state', NewPos(p).row, NewPos(p).col)
                      /\ OverrideAt(state', NewPos(p).row, NewPos(p).col)
                           = OverrideAt(state, p.row, p.col)
                /\ OverridePositions(state') = {NewPos(p) : p \in kept}]_vars

----------------------------------------------------------------------------
(* Claims about range moves.  In a step whose lastOp' is a MOVE record, the *)
(* unprimed state is the grid before the move and the primed one after it.   *)

\* The cells of the moved range.
RangeCells(range) ==
    {p \in [row : Min(range.start.row, range.end.row)..Max(range.start.row, range.end.row),
            col : Min(range.start.col, range.end.col)..Max(range.start.col, range.end.col)] :
        TRUE}

Target(op, p) == Pos(p.row + op.rowOffset, p.col + op.colOffset)

\* The source and target rectangles share a cell.
Overlaps(op) == \E p \in RangeCells(op.range) : Target(op, p) \in RangeCells(op.range)

\* What SET_VALUE stores in a text column for a non-empty value: the value
\* trimmed, or the value itself when it is nothing but white space.
Normalized(value) == IF Trim(value) # <<>> THEN Trim(value) ELSE value

C10_MoveIsOneCommit ==
    [][(lastOp'.type = "MOVE" /\ lastOp'.cellData # <<>>)
         => /\ state'.historyIndex = state.historyIndex + 1
            /\ \A i \in (state.historyIndex + 2)..Len(state'.history) :
                  DisplayGrid(Restore(state', state'.history[i], i - 1))
                    = DisplayGrid(state')]_vars

----------------------------------------------------------------------------
(* Claims about indices and positions outside the dataset. *)

\* C11 (as claimed): dispatch never throws, whatever integer indices or
\* positions the operation carries.
C11_DispatchNeverThrows == ~threw

\* The position of a cell operation lies outside the dataset.
OutOfBounds(s, pos) == ~InBounds(s, pos.row, pos.col)

\* C12 (as claimed): SET_VALUE, SET_STYLE and SET_FORMULA addressed to a position
\* outside the dataset leave the overrides, the dataset, the history and
\* historyIndex unchanged.
C12_OutOfBoundsCellOpsIgnored ==
    [][(lastOp'.type \in {"SET_VALUE", "SET_STYLE", "SET_FORMULA"}
          /\ OutOfBounds(state, lastOp'.position))
         => /\ state'.cells = state.cells
            /\ state'.data = state.data
            /\ state'.history = state.history
            /\ state'.historyIndex = state.historyIndex]_vars

\* C13 (as claimed): DELETE_ROW and DELETE_COLUMN with an index that names no
\* row or column (index >= length or index < 0) leave items, columns, every
\* override key, the history and historyIndex unchanged.
C13_InvalidDeleteIgnored ==
    [][/\ (lastOp'.type = "DELETE_ROW"
            /\ (lastOp'.index < 0 \/ lastOp'.index >= Len(state.data.items)))
          => /\ state'.data = state.data
             /\ ObjectKeys(state'.cells) = ObjectKeys(state.cells)
             /\ state'.history = state.history
             /\ state'.historyIndex = state.historyIndex
       /\ (lastOp'.type = "DELETE_COLUMN"
            /\ (lastOp'.index < 0 \/ lastOp'.index >= Len(state.data.columns)))
          => /\ state'.data = state.data
             /\ ObjectKeys(state'.cells) = ObjectKeys(state.cells)
             /\ state'.history = state.history
             /\ state'.historyIndex = state.historyIndex]_vars

\* The keys of the cells of the dataset.
DatasetKeys(s) == {getCellKey(p.row, p.col) : p \in Positions(s)}

\* C14 (as claimed): every override key names a cell of the current dataset:
\* it is the key of some (r, c) with 0 <= r < items.length, 0 <= c < columns.length.
C14_OverridesInBounds ==
    \A i \in DOMAIN state.cells : state.cells[i].key \in DatasetKeys(state)

----------------------------------------------------------------------------
(* Claims about adding columns and rows. *)

ColumnKeys(s) == {s.data.columns[c].key : c \in DOMAIN s.data.columns}

\* C15 (as claimed): the column keys of the dataset are pairwise different in
\* every reachable state, also when two ADD_COLUMNs read the same clock value.
C15_ColumnKeysUnique ==
    \A i, j \in DOMAIN state.data.columns :
        i # j => state.data.columns[i].key # state.data.columns[j].key

\* C17: ADD_COLUMN without an index appends one column and gives every item an
\* empty string under the new key, its other fields unchanged; an ADD_ROW without
\* an index that follows it appends one item that holds an empty string under
\* every column key, the new one included, and changes nothing else in the data.
C17_AddColumnThenAddRow ==
    [][/\ (lastOp'.type = "ADD_COLUMN" /\ lastOp'.index = Null)
          => LET n == Len(state.data.columns)
                 key == state'.data.columns[n + 1].key
             IN  /\ Len(state'.data.columns) = n + 1
                 /\ SubSeq(state'.data.columns, 1, n) = state.data.columns
                 /\ Len(state'.data.items) = Len(state.data.items)
                 /\ \A i \in DOMAIN state.data.items :
                       /\ DOMAIN state'.data.items[i] = DOMAIN state.data.items[i] \cup {key}
                       /\ state'.data.items[i][key] = <<>>
                       /\ \A k \in DOMAIN state.data.items[i] \ {key} :
                             state'.data.items[i][k] = state.data.items[i][k]
       /\ (lastOp.type = "ADD_COLUMN" /\ lastOp.index = Null
             /\ lastOp'.type = "ADD_ROW" /\ lastOp'.index = Null)
          => LET m == Len(state.data.items)
                 newRow == state'.data.items[m + 1]
             IN  /\ state'.data.columns = state.data.columns
                 /\ Len(state'.data.items) = m + 1
                 /\ SubSeq(state'.data.items, 1, m) = state.data.items
                 /\ DOMAIN newRow = ColumnKeys(state')
                 /\ NewColumnKey(lastOp.now) \in DOMAIN newRow
                 /\ \A k \in DOMAIN newRow : newRow[k] = <<>>]_vars

\* C17 witness: ADD_COLUMN() and then ADD_ROW() were the first two operations:
\* the first history entry has the new column and the loaded items, the
\* current state one more item, empty in every column.
C17_Witness ==
    /\ lastOp.type = "ADD_ROW" /\ lastOp.index = Null
    /\ Len(state.history) = 2 /\ state.historyIndex = 1
    /\ state.history[1].data.columns = state.data.columns
    /\ Len(state.history[1].data.items) = NumRows
    /\ Len(state.data.columns) = NumCols + 1
    /\ Len(state.data.items) = NumRows + 1
    /\ \A k \in ColumnKeys(state) : state.data.items[NumRows + 1][k] = <<>>

----------------------------------------------------------------------------
(* Claims about selection and styles. *)

\* C16: SELECT_CELL(p) leaves selectedCell = p and selectedRange = null, and
\* SELECT_RANGE(r) leaves selectedRange = r, its corners as given, and
\* selectedCell = null, whatever was selected before.
C16_SelectionExclusive ==
    [][/\ lastOp'.type = "SELECT_CELL"
          => /\ state'.selectedCell = Some(lastOp'.position)
             /\ state'.selectedRange = Null
       /\ lastOp'.type = "SELECT_RANGE"
          => /\ state'.selectedRange = Some(lastOp'.range)
             /\ state'.selectedCell = Null]_vars

\* C16 witness: a range whose start lies after its end has just been selected,
\* and the latest commit was made while a single cell was selected.
C16_Witness ==
    /\ lastOp.type = "SELECT_RANGE"
    /\ lastOp.range.start.row > lastOp.range.end.row
    /\ state.selectedRange = Some(lastOp.range)
    /\ state.selectedCell = Null
    /\ state.historyIndex >= 0
    /\ state.history[state.historyIndex + 1].selectedCell # Null
    /\ state.history[state.historyIndex + 1].cells = state.cells

\* C19: a SET_STYLE overwrites the fields it names and nothing else: afterwards
\* getCellStyle returns the named fields with their new values and every other
\* field the cell's style had with the value it had.
C19_StyleMergesAdditively ==
    [][lastOp'.type = "SET_STYLE"
         => LET before == getCellStyle(state, lastOp'.position.row, lastOp'.position.col)
                after == getCellStyle(state', lastOp'.position.row, lastOp'.position.col)
                named == DOMAIN lastOp'.style
            IN  /\ DOMAIN after = (DOMAIN before) \cup named
                /\ \A f \in named : after[f] = lastOp'.style[f]
                /\ \A f \in (DOMAIN before) \ named : after[f] = before[f]]_vars

\* C19 witness: the style of cell (0, 0) holds three fields that no single
\* SET_STYLE of the run can have set together.
C19_Witness ==
    /\ lastOp.type = "SET_STYLE"
    /\ getCellStyle(state, 0, 0)
         = [bold |-> FALSE, italic |-> TRUE, backgroundColor |-> "#ff0000"]

----------------------------------------------------------------------------
(* Claims about validation. *)

\* The SET_VALUE op carries a non-empty value that fails the validation of the
\* type its column has in state s.
FailsValidation(s, op) ==
    /\ op.type = "SET_VALUE"
    /\ InBounds(s, op.position.row, op.position.col)
    /\ op.value # <<>>
    /\ ~validateCellValue(op.value, s.data.columns[op.position.col + 1].type,
                         NoFormat).isValid

\* C18: a SET_VALUE whose non-empty value fails validation still writes the
\* override, with the formatted value if validation produced one and with the
\* raw input otherwise, and commits a history entry as every SET_VALUE does: the
\* entries above historyIndex are dropped and the new state is appended.
C18_InvalidValueWritten ==
    [][FailsValidation(state, lastOp')
         => LET pos == lastOp'.position
                validation == validateCellValue(lastOp'.value,
                                                state.data.columns[pos.col + 1].type,
                                                NoFormat)
                produced == validation.formattedValue # Null
                              /\ validation.formattedValue[1] # <<>>
                n == Len(state'.history)
            IN  /\ HasOverride(state', pos.row, pos.col)
                /\ OverrideAt(state', pos.row, pos.col).value
                     = (IF produced THEN validation.formattedValue[1] ELSE lastOp'.value)
                /\ n = Min(state.historyIndex + 2, HistoryCap)
                /\ state'.history[n].cells = state'.cells
                /\ state'.history[n].data = state'.data
                /\ SubSeq(state'.history, 1, n - 1)
                     = SubSeq(state.history, 1, state.historyIndex + 1)]_vars

\* C18 witness: 'ab' has just been written to a cell of a number column, which
\* now shows it, and the write is the second entry of the history.
C18_Witness ==
    /\ lastOp.type = "SET_VALUE" /\ lastOp.value = <<"a", "b">>
    /\ lastOp.position = Pos(1, 0)
    /\ state.data.columns[1].type = "number"
    /\ getCellDisplayValue(state, 1, 0) = <<"a", "b">>
    /\ state.historyIndex = 1 /\ Len(state.history) = 2

----------------------------------------------------------------------------
(* Claims about the redo tail. *)

RECURSIVE UndoRedoClosure(_, _)
UndoRedoClosure(seen, frontier) ==
    LET new == ({Undo(s) : s \in frontier} \cup {Redo(s) : s \in frontier}) \ seen
    IN  IF new = {} THEN seen ELSE UndoRedoClosure(seen \cup new, new)

\* Every state that some sequence of UNDOs and REDOs leads to from s.
UndoRedoReach(s) == UndoRedoClosure({s}, {s})

\* C20: when a commit follows undos that were not all redone, the entries above
\* historyIndex are discarded: right after the commit REDO changes nothing, and
\* no sequence of UNDOs and REDOs leads to the overrides of an undone entry.
C20_RedoTailDiscarded ==
    [][(lastOp'.type \in CommitTypes /\ run.p2 \in {"undos", "redos"} /\ run.j < run.k)
         => LET undone == {state.history[i].cells :
                              i \in (state.historyIndex + 2)..Len(state.history)}
            IN  /\ Redo(state') = state'
                /\ \A t \in UndoRedoReach(state') : t.cells \notin undone]_vars

\* C20 witness: the history is full and its two newest entries do not hold
\* successive values: the edit just made replaced entries that had been undone.
C20_Witness ==
    /\ lastOp.type = "SET_VALUE"
    /\ Len(state.history) = HistoryCap
    /\ EntryId(state.history[HistoryCap].cells)
         > EntryId(state.history[HistoryCap - 1].cells) + 1
    /\ state.history[HistoryCap].cells = state.cells

----------------------------------------------------------------------------
(* Claims about what a history entry holds and what UNDO and REDO restore. *)

\* C21 (as claimed): a history entry holds the dataset, the overrides, the
\* selected cell, the selected range and the editing cell, and nothing else: not
\* the history sequence and not the history index.
C21_EntryHoldsNoHistory ==
    \A i \in DOMAIN state.history :
        DOMAIN state.history[i]
          = {"data", "cells", "selectedCell", "selectedRange", "editingCell"}

\* C22: an UNDO taken with historyIndex > 0 lowers historyIndex by one and makes
\* the dataset, the overrides, the selected cell, the selected range and the
\* editing cell those of the history entry at the new index, the history itself
\* unchanged; an UNDO with historyIndex <= 0 and a REDO with
\* historyIndex = history.length - 1 change nothing.
C22_UndoRestoresEntry ==
    [][/\ (lastOp'.type = "UNDO" /\ state.historyIndex > 0)
          => LET entry == state.history[state.historyIndex]
             IN  /\ state'.historyIndex = state.historyIndex - 1
                 /\ state'.data = entry.data
                 /\ state'.cells = entry.cells
                 /\ state'.selectedCell = entry.selectedCell
                 /\ state'.selectedRange = entry.selectedRange
                 /\ state'.editingCell = entry.editingCell
                 /\ state'.history = state.history
       /\ (lastOp'.type = "UNDO" /\ state.historyIndex <= 0) => state' = state
       /\ (lastOp'.type = "REDO" /\ state.historyIndex = Len(state.history) - 1)
          => state' = state]_vars

\* C22 witness: an UNDO has just brought back the overrides and the selected
\* range of an entry whose overrides differ from those of the entry above it.
C22_Witness ==
    /\ lastOp.type = "UNDO"
    /\ state.historyIndex >= 0 /\ state.historyIndex + 2 <= Len(state.history)
    /\ state.cells = state.history[state.historyIndex + 1].cells
    /\ state.selectedRange = state.history[state.historyIndex + 1].selectedRange
    /\ state.selectedRange # Null
    /\ state.cells # state.history[state.historyIndex + 2].cells

----------------------------------------------------------------------------
(* Claims about selection and editing as transient state. *)

\* C23: SELECT_CELL, SELECT_RANGE, START_EDITING and STOP_EDITING, and with them
\* every pointer move of a drag, leave the history, historyIndex, the dataset
\* and the overrides unchanged.
C23_SelectionIsTransient ==
    [][lastOp'.type \in {"SELECT_CELL", "SELECT_RANGE", "START_EDITING", "STOP_EDITING",
                         "MOUSE_MOVE"}
         => /\ state'.history = state.history
            /\ state'.historyIndex = state.historyIndex
            /\ state'.data = state.data
            /\ state'.cells = state.cells]_vars

\* C23 witness: during a drag a pointer move has just selected a range that is
\* not the one selected at the only commit made so far.
C23_Witness ==
    /\ lastOp.type = "MOUSE_MOVE"
    /\ isDragging
    /\ Len(state.history) = 1
    /\ state.selectedRange = Some([start |-> dragStart[1], end |-> lastOp.position])
    /\ state.selectedRange # state.history[1].selectedRange

\* C30: START_EDITING(p) sets editingCell = p and STOP_EDITING sets it to null,
\* both leaving selectedCell and selectedRange unchanged; SELECT_CELL and
\* SELECT_RANGE leave editingCell unchanged.
C30_SelectionEditingIndependent ==
    [][/\ lastOp'.type = "START_EDITING"
          => /\ state'.editingCell = Some(lastOp'.position)
             /\ state'.selectedCell = state.selectedCell
             /\ state'.selectedRange = state.selectedRange
       /\ lastOp'.type = "STOP_EDITING"
          => /\ state'.editingCell = Null
             /\ state'.selectedCell = state.selectedCell
             /\ state'.selectedRange = state.selectedRange
       /\ lastOp'.type \in {"SELECT_CELL", "SELECT_RANGE"}
          => state'.editingCell = state.editingCell]_vars

\* C30 witness: editing has just started on a cell outside the selected range.
C30_Witness ==
    /\ lastOp.type = "START_EDITING"
    /\ state.editingCell = Some(lastOp.position)
    /\ state.selectedRange # Null
    /\ ~InRect(state.selectedRange[1], lastOp.position.row, lastOp.position.col)

----------------------------------------------------------------------------
(* Claims about reading and inserting outside or inside the dataset. *)

\* C24 (as claimed): for a position outside the dataset (row or col at or
\* beyond the length, or negative) getCellDisplayValue does not throw and
\* returns the empty string.
C24_OutOfBoundsReadsEmpty ==
    \A p \in IndexPositions(state) :
        OutOfBounds(state, p)
          => /\ ~ReadThrows(state, p.row, p.col)
             /\ getCellDisplayValue(state, p.row, p.col) = <<>>

\* C26 (as claimed): after ADD_ROW(i) an override that was at (r, c) with r >= i
\* is found at (r + 1, c), after ADD_COLUMN(i) one that was at (r, c) with
\* c >= i is found at (r, c + 1), and no cell that was in the dataset changes
\* its display value.
C26_InsertKeepsOverrides ==
    [][/\ (lastOp'.type = "ADD_ROW" /\ lastOp'.index # Null
             /\ lastOp'.index[1] \in 0..Len(state.data.items))
          => \A p \in Positions(state) :
                LET r == IF p.row >= lastOp'.index[1] THEN p.row + 1 ELSE p.row
                IN  /\ HasOverride(state, p.row, p.col)
                       => /\ HasOverride(state', r, p.col)
                          /\ OverrideAt(state', r, p.col) = OverrideAt(state, p.row, p.col)
                    /\ getCellDisplayValue(state', r, p.col)
                         = getCellDisplayValue(state, p.row, p.col)
       /\ (lastOp'.type = "ADD_COLUMN" /\ lastOp'.index # Null
             /\ lastOp'.index[1] \in 0..Len(state.data.columns))
          => \A p \in Positions(state) :
                LET c == IF p.col >= lastOp'.index[1] THEN p.col + 1 ELSE p.col
                IN  /\ HasOverride(state, p.row, p.col)
                       => /\ HasOverride(state', p.row, c)
                          /\ OverrideAt(state', p.row, c) = OverrideAt(state, p.row, p.col)
                    /\ getCellDisplayValue(state', p.row, c)
                         = getCellDisplayValue(state, p.row, p.col)]_vars

----------------------------------------------------------------------------
(* Claims about the pure functions of cellUtils. *)

\* C25: for non-negative r and c, parseCellKey(getCellKey(r, c)) = (r, c), and
\* no other pair (r2, c2) has the key of (r, c).
C25_KeyRoundTrip ==
    (lastOp.type = "RETURN" /\ lastOp.fn = "getCellKey")
      => /\ lastOp.parsed = Pos(lastOp.row, lastOp.col)
         /\ \A r2 \in 0..MaxCoord, c2 \in 0..MaxCoord :
               getCellKey(r2, c2) = lastOp.key => (r2 = lastOp.row /\ c2 = lastOp.col)

\* C25 witness: the key of (11, 10), both numbers of two digits, came back as
\* (11, 10).
C25_Witness ==
    /\ lastOp.type = "RETURN" /\ lastOp.fn = "getCellKey"
    /\ lastOp.row = 11 /\ lastOp.col = 10
    /\ lastOp.key = <<"1", "1", "-", "1", "0">>
    /\ lastOp.parsed = Pos(11, 10)

\* The message of each modelled type for an input it rejects.
ErrorMessage(columnType) ==
    CASE columnType = "number" -> "Must be a valid number"
      [] columnType = "email" -> "Must be a valid email address"
      [] columnType = "boolean" -> "Must be Yes/No, True/False, or 1/0"

\* The non-empty input does not satisfy the column type: a number column's
\* trimmed input does not parse as a floating-point number, an email column's
\* is not of the form local@domain.tld, a boolean column's is not one of the
\* six words.
Unsatisfied(value, columnType) ==
    /\ value # <<>>
    /\ \/ columnType = "number" /\ parseFloat(Trim(value)).isNaN
       \/ columnType = "email" /\ ~emailRegex(Trim(value))
       \/ columnType = "boolean" /\ toLowerCase(Trim(value)) \notin BooleanWords

FractionDigits(s) ==
    IF \E i \in 1..Len(s) : s[i] = "."
    THEN Len(s) - (CHOOSE i \in 1..Len(s) : s[i] = ".")
    ELSE 0

\* C29: a valid input on a number column is formatted with exactly
\* format.decimals fractional digits when format.decimals is given (0, 1, 2,
\* ...), and with exactly 2 when it is absent.
C29_DecimalsHonoured ==
    (/\ lastOp.type = "RETURN" /\ lastOp.fn = "validateCellValue"
     /\ lastOp.columnType = "number" /\ lastOp.value # <<>>
     /\ lastOp.result.isValid)
      => FractionDigits(lastOp.result.formattedValue[1])
           = (IF lastOp.format # Null /\ lastOp.format[1].decimals # Null
              THEN lastOp.format[1].decimals[1]
              ELSE 2)

\* The category's share of the filled samples is above 0.70 (for number: it is
\* the whole), as fractions of integers.
Qualifies(category, samples) ==
    IF category = "number"
    THEN MatchCount("number", samples) = Len(samples)
    ELSE 10 * MatchCount(category, samples) > 7 * Len(samples)

\* C27: inferColumnType drops the empty samples and returns the first
\* category, in the order currency, percentage, number, date, email, url,
\* boolean, whose share of the filled samples is strictly above 0.70 (number: all
\* of them), and text when no category qualifies or no sample is filled.
C27_FirstCategoryAbove70 ==
    (lastOp.type = "RETURN" /\ lastOp.fn = "inferColumnType")
      => LET Filled(v) == v # <<>>
             filled == SelectSeq(lastOp.values, Filled)
             qualifying == {i \in 1..Len(Categories) : Qualifies(Categories[i], filled)}
         IN  lastOp.result
               = (IF filled = <<>> \/ qualifying = {} THEN "text"
                  ELSE Categories[CHOOSE i \in qualifying : \A j \in qualifying : i <= j])

----------------------------------------------------------------------------
(* Claims about the selection, the editing cell and the pointer. *)

\* C36: in every reachable state, the states restored by UNDO and REDO
\* included, selectedCell and selectedRange are not both non-null.
C36_OneSelectionAtMost == ~(state.selectedCell # Null /\ state.selectedRange # Null)

\* C36 witness: an UNDO has just restored an entry (the index is below the last
\* entry) whose selection is a range, after a range move had selected another.
C36_Witness ==
    /\ lastOp.type = "UNDO"
    /\ run.moved
    /\ state.historyIndex < Len(state.history) - 1
    /\ state.selectedRange # Null
    /\ state.selectedCell = Null

\* C31: while editingCell is non-null, a pointer press or a click on a cell
\* starts no drag, neither a range selection nor a move (the four drag variables
\* of the component keep their values), and leaves selectedCell and
\* selectedRange as they are.
C31_EditingSuppressesPointer ==
    [][(state.editingCell # Null /\ lastOp'.type \in {"MOUSE_DOWN", "CLICK"})
         => /\ isDragging' = isDragging
            /\ dragStart' = dragStart
            /\ draggedRange' = draggedRange
            /\ draggedCellId' = draggedCellId
            /\ state'.selectedCell = state.selectedCell
            /\ state'.selectedRange = state.selectedRange]_vars

\* C31 witness: while a cell is edited and no drag is under way, the pointer has
\* just been pressed on a cell inside the selected range, where a press
\* would otherwise start a move.
C31_Witness ==
    /\ lastOp.type = "MOUSE_DOWN"
    /\ state.editingCell # Null
    /\ ~isDragging
    /\ isInRange(state, lastOp.position.row, lastOp.position.col)
    /\ state.selectedRange[1].start # state.selectedRange[1].end

\* C32: after a range move is applied, selectedCell is null and selectedRange is
\* the source range shifted by the offset, the drop cell minus the cell the
\* drag was anchored on: its corners are the top-left and the bottom-right
\* corner of the source range, each shifted by the offset, and its cells are the
\* cells of the source range shifted by the offset.
C32_MoveSelectsShiftedRange ==
    [][lastOp'.type = "MOVE"
         => LET range == lastOp'.range
                rowOffset == lastOp'.drop.row - dragStart[1].row
                colOffset == lastOp'.drop.col - dragStart[1].col
            IN  /\ state'.selectedCell = Null
                /\ state'.selectedRange
                     = Some([start |-> Pos(Min(range.start.row, range.end.row) + rowOffset,
                                           Min(range.start.col, range.end.col) + colOffset),
                             end |-> Pos(Max(range.start.row, range.end.row) + rowOffset,
                                         Max(range.start.col, range.end.col) + colOffset)])
                /\ RangeCells(state'.selectedRange[1])
                     = {Pos(p.row + rowOffset, p.col + colOffset) : p \in RangeCells(range)}]_vars

\* C32 witness: a range that was selected from its bottom-right to its top-left
\* corner has been moved, with content, by an offset that is not zero, and is
\* selected at its new place.
C32_Witness ==
    /\ lastOp.type = "MOVE"
    /\ lastOp.range.start.row > lastOp.range.end.row
    /\ lastOp.range.start.col > lastOp.range.end.col
    /\ lastOp.rowOffset # 0 \/ lastOp.colOffset # 0
    /\ lastOp.cellData # <<>>
    /\ state.selectedRange # Null
    /\ state.selectedRange[1].start
         = Pos(lastOp.range.end.row + lastOp.rowOffset, lastOp.range.end.col + lastOp.colOffset)

\* C35 (as claimed): in every reachable state a non-null selectedCell, both
\* corners of a non-null selectedRange and a non-null editingCell are positions
\* inside the bounds of the current dataset.
C35_SelectionInBounds ==
    /\ state.selectedCell # Null
          => InBounds(state, state.selectedCell[1].row, state.selectedCell[1].col)
    /\ state.selectedRange # Null
          => /\ InBounds(state, state.selectedRange[1].start.row,
                         state.selectedRange[1].start.col)
             /\ InBounds(state, state.selectedRange[1].end.row,
                         state.selectedRange[1].end.col)
    /\ state.editingCell # Null
          => InBounds(state, state.editingCell[1].row, state.editingCell[1].col)

----------------------------------------------------------------------------
(* Claims about what one cell operation leaves alone. *)

\* The keys of the override map, as a set.
OverrideKeys(s) == {s.cells[i].key : i \in DOMAIN s.cells}

\* C39: SET_VALUE on a cell changes only that cell's value: the style and the
\* formula stored on that cell's override are kept, and so is the override (or
\* the absence of one) of every other cell.
C39_SetValueKeepsStyleAndFormula ==
    [][lastOp'.type = "SET_VALUE"
         => LET key == getCellKey(lastOp'.position.row, lastOp'.position.col)
            IN  /\ HasKey(state.cells, key)
                     => /\ GetCell(state'.cells, key).style = GetCell(state.cells, key).style
                        /\ GetCell(state'.cells, key).formula
                             = GetCell(state.cells, key).formula
                /\ OverrideKeys(state') = OverrideKeys(state) \cup {key}
                /\ \A k \in OverrideKeys(state) \ {key} :
                       GetCell(state'.cells, k) = GetCell(state.cells, k)]_vars

\* C39 witness: a value has just been written to cell (0, 0), whose override
\* holds a style and a formula, while cell (0, 1) holds a style of its own.
C39_Witness ==
    /\ lastOp.type = "SET_VALUE" /\ lastOp.position = Pos(0, 0) /\ lastOp.value = <<"x">>
    /\ HasKey(state.cells, getCellKey(0, 0))
    /\ GetCell(state.cells, getCellKey(0, 0))
         = [value |-> <<"x">>, style |-> [bold |-> TRUE], formula |-> Some(<<"=", "1">>)]
    /\ getCellStyle(state, 0, 1) = [italic |-> TRUE]

\* C34 (as claimed): SET_STYLE and SET_FORMULA change only the style or the
\* formula of the addressed cell: the display value and the raw value of every
\* cell, the addressed one included, are the same before and after.
C34_StyleAndFormulaKeepValues ==
    [][lastOp'.type \in {"SET_STYLE", "SET_FORMULA"}
         => \A p \in Positions(state) :
               /\ getCellDisplayValue(state', p.row, p.col)
                    = getCellDisplayValue(state, p.row, p.col)
               /\ getCellRawValue(state', p.row, p.col)
                    = getCellRawValue(state, p.row, p.col)]_vars

\* C33: SORT_COLUMN has no effect: for any column index and direction it leaves
\* the dataset (the order of the rows included), the overrides, the selection,
\* the editing cell, the history and historyIndex unchanged.
C33_SortColumnHasNoEffect ==
    [][lastOp'.type = "SORT_COLUMN"
         => /\ state'.data = state.data
            /\ state'.cells = state.cells
            /\ state'.selectedCell = state.selectedCell
            /\ state'.selectedRange = state.selectedRange
            /\ state'.editingCell = state.editingCell
            /\ state'.history = state.history
            /\ state'.historyIndex = state.historyIndex]_vars

\* C33 witness: a second click on the header of column 0 has asked for a
\* descending sort, with two different values in that column and a commit in
\* the history, and the rows are in the order in which they were loaded.
C33_Witness ==
    /\ lastOp = [type |-> "SORT_COLUMN", columnIndex |-> 0, direction |-> "desc"]
    /\ sortedColumn = Some([index |-> 0, direction |-> "desc"])
    /\ getCellDisplayValue(state, 0, 0) = <<"x">>
    /\ getCellDisplayValue(state, 1, 0) = <<"d">>
    /\ state.data.items = initialData.items
    /\ state.historyIndex = 0

\* C37: one Ctrl+Z key press performs one undo step: between z going down with
\* Control held and z coming up, historyIndex is at most one below what it was
\* when the key went down.
C37_OnePressOneUndo ==
    pressIndex # Null => state.historyIndex >= pressIndex[1] - 1

----------------------------------------------------------------------------
(* Claims about the dataset. *)

\* C38 (as claimed): in every reachable state every item has a field for each
\* column key of the dataset and no field for any other key.
C38_ItemsMatchColumns ==
    \A r \in DOMAIN state.data.items : DOMAIN state.data.items[r] = ColumnKeys(state)
====
